---- MODULE Spec2Model ----
(***************************************************************************)
(* Model of the fissio pipeline engine (fissio-engine/src/lib.rs) and the  *)
(* pipeline configuration it walks (fissio-config/src/lib.rs).             *)
(*                                                                         *)
(* A request is one call of PipelineEngine::execute_stream.  The async     *)
(* recursion process_edge -> execute_sequential / execute_parallel ->      *)
(* process_outgoing_edges -> process_edge is modelled by an explicit call  *)
(* stack of frames; every action is one step of one of these functions.    *)
(* A recursion that re-enters a call it is already inside, with nothing    *)
(* executed in between, repeats itself for ever: the model keeps one copy  *)
(* of the repeated frames and goes round in place.                         *)
(*                                                                         *)
(* One node execution (execute_node) is one step of the request: the LLM's *)
(* replies, the tool calls it asks for and the results of the tools are    *)
(* the environment's choice, and the execution's chat calls, tool calls    *)
(* and message pushes are kept, in order, as the trace of its result.      *)
(*                                                                         *)
(* Strings that the engine only copies, joins and compares (node outputs,  *)
(* the user message) are sequences of atoms; joining puts the separator    *)
(* atom between the parts.  Node IDs are TLA+ strings.                     *)
(***************************************************************************)
EXTENDS Integers, Sequences, FiniteSets, TLC

VARIABLES
    config,      \* PipelineEngine.config: [nodes, edges]
    user_input,  \* the user message of the request
    context,     \* the shared context map: node ID (or "input") -> string
    executed,    \* the executed set of the request
    step,        \* the step counter
    stack,       \* the call stack of the async recursion (top = last)
    batches,     \* number of execute_parallel calls made so far
    log,         \* history: the reads, runs, writes and edge decisions so far
    result,      \* what execute_stream returned, or that it is still running
    study,       \* a function under study and the arguments it is called with
    ret,         \* what that function returned (<<>>: it was not called yet)
    net,         \* the network chunks of a response body not yet received
    buffer,      \* the scan state of a stream parser: the incomplete last line
    chunks,      \* the stream items (LlmStream) produced and not yet consumed
    collector,   \* OllamaMetricsCollector.metrics
    req,         \* the chat request the server handles
    task,        \* the request's spawned task: its position and its locals
    events       \* what the task has sent on the channel of the response

engine_vars ==
    <<config, user_input, context, executed, step, stack, batches, log, result>>

study_vars == <<study, ret>>

stream_vars == <<net, buffer, chunks, collector>>

server_vars == <<req, task, events>>

vars == <<engine_vars, study_vars, stream_vars, server_vars>>

\* What the traversal of the engine leaves alone
other_vars == <<study_vars, stream_vars, server_vars>>

\* No function is under study
NoCall == study = [fn |-> "none"] /\ ret = <<>>

\* OllamaMetrics::default()
DefaultMetrics ==
    [prompt_eval_count |-> 0, eval_count |-> 0, total_duration |-> 0,
     load_duration |-> 0, prompt_eval_duration |-> 0, eval_duration |-> 0]

\* No response body is being read
StreamIdle == net = <<>> /\ buffer = <<>> /\ chunks = <<>> /\ collector = DefaultMetrics

\* No chat request is being handled
ServerIdle == req = [path |-> "none"] /\ task = [pc |-> "idle"] /\ events = <<>>

\* Nothing besides the engine's traversal takes place
OthersIdle == NoCall /\ StreamIdle /\ ServerIdle

----------------------------------------------------------------------------
(* Bounds *)

\* Longest edge list of the generated pipelines.
MaxGenEdges == 2

----------------------------------------------------------------------------
(* Configuration data model: fissio-config *)

\* EdgeEndpoint::Single(s)
Single(s) == [single |-> TRUE, ids |-> <<s>>]

\* EdgeEndpoint::Multiple(v)
Multiple(v) == [single |-> FALSE, ids |-> v]

\* EdgeEndpoint::as_vec
as_vec(ep) == ep.ids

\* EdgeConfig { from, to, edge_type }
EdgeConfig(f, t, ty) == [from |-> f, to |-> t, edge_type |-> ty]

\* NodeConfig { id, node_type, tools, .. }; tools defaults to the empty list
NodeConfig(id, ty) == [id |-> id, node_type |-> ty, tools |-> <<>>]

\* NodeBuilder::tools
tools(node, names) == [node EXCEPT !.tools = names]

\* PipelineBuilder::edge
edge(f, t) == EdgeConfig(Single(f), Single(t), "direct")

\* PipelineBuilder::edge_typed
edge_typed(f, t, ty) == EdgeConfig(Single(f), Single(t), ty)

\* PipelineBuilder::parallel_edge
parallel_edge(f, t) == EdgeConfig(Single(f), Multiple(t), "parallel")

\* PipelineBuilder::conditional_edge
conditional_edge(f, t) == EdgeConfig(Single(f), Multiple(t), "conditional")

\* NodeType::requires_llm
requires_llm(ty) == ty \in {"llm", "worker"}

\* NodeType::is_router
is_router(ty) == ty = "router"

----------------------------------------------------------------------------
(* Sequence helpers *)

Range(s) == {s[i] : i \in DOMAIN s}

Contains(s, x) == \E i \in DOMAIN s : s[i] = x

RECURSIVE Flatten(_)
Flatten(ss) == IF ss = <<>> THEN <<>> ELSE Head(ss) \o Flatten(Tail(ss))

\* The separator of get_input_for_node's join.
Separator == "\n\n---\n\n"

\* [String]::join(Separator) on strings that are sequences of atoms
RECURSIVE Join(_)
Join(parts) ==
    IF parts = <<>> THEN <<>>
    ELSE IF Len(parts) = 1 THEN parts[1]
    ELSE parts[1] \o <<Separator>> \o Join(Tail(parts))

\* Mutant of MapInsert: the value is never stored.
MapInsertDropped(m, k, v) == m

\* HashMap::insert
MapInsert(m, k, v) == [x \in DOMAIN m \cup {k} |-> IF x = k THEN v ELSE m[x]]

EmptyMap == [x \in {} |-> <<>>]

----------------------------------------------------------------------------
(* Lookups of PipelineEngine *)

\* Mutant of get_node: an unknown ID gets a default node.
get_node_or_default(cfg, id) ==
    LET found == SelectSeq(cfg.nodes, LAMBDA n : n.id = id)
    IN  IF found = <<>> THEN <<NodeConfig(id, "llm")>> ELSE <<found[1]>>

\* PipelineEngine::get_node: the first node with this ID (a one-element
\* sequence), or none (the empty sequence)
get_node(cfg, id) ==
    LET found == SelectSeq(cfg.nodes, LAMBDA n : n.id = id)
    IN  IF found = <<>> THEN <<>> ELSE <<found[1]>>

\* get_node returns Some
HasNode(cfg, id) == get_node(cfg, id) /= <<>>

\* config.edges.iter(): the edge indices in declaration order
EdgeIndices(cfg) == [i \in 1..Len(cfg.edges) |-> i]

\* PipelineEngine::get_outgoing_edges (as indices into config.edges)
get_outgoing_edges(cfg, node_id) ==
    SelectSeq(EdgeIndices(cfg),
              LAMBDA i : Contains(as_vec(cfg.edges[i].from), node_id))

\* PipelineEngine::get_outgoing_targets
get_outgoing_targets(cfg, node_id) ==
    LET out == get_outgoing_edges(cfg, node_id)
        all == Flatten([k \in DOMAIN out |-> as_vec(cfg.edges[out[k]].to)])
    IN  SelectSeq(all, LAMBDA t : t /= "output")

\* execute_stream: the starting edges, those whose from is Single("input")
start_edges(cfg) ==
    SelectSeq(EdgeIndices(cfg),
              LAMBDA i : cfg.edges[i].from.single /\ cfg.edges[i].from.ids[1] = "input")

----------------------------------------------------------------------------
(* Input materialization and final output *)

\* The context values of the IDs of ids that have one, in ids order.
PresentValues(ids, ctx) ==
    LET present == SelectSeq(ids, LAMBDA id : id \in DOMAIN ctx)
    IN  [k \in DOMAIN present |-> ctx[present[k]]]

\* Mutant of InputFromEdge: the first incoming edge decides, and an edge
\* without values falls back to the user message at once.
RECURSIVE InputFromFirstEdge(_, _, _, _)
InputFromFirstEdge(cfg, node_id, ctx, i) ==
    IF i > Len(cfg.edges)
    THEN (IF "input" \in DOMAIN ctx THEN ctx["input"] ELSE <<>>)
    ELSE LET e      == cfg.edges[i]
             inputs == PresentValues(as_vec(e.from), ctx)
         IN  IF ~Contains(as_vec(e.to), node_id)
             THEN InputFromFirstEdge(cfg, node_id, ctx, i + 1)
             ELSE IF inputs /= <<>>
                  THEN Join(inputs)
                  ELSE (IF "input" \in DOMAIN ctx THEN ctx["input"] ELSE <<>>)

\* PipelineEngine::get_input_for_node: the loop over config.edges from edge i
RECURSIVE InputFromEdge(_, _, _, _)
InputFromEdge(cfg, node_id, ctx, i) ==
    IF i > Len(cfg.edges)
    THEN (IF "input" \in DOMAIN ctx THEN ctx["input"] ELSE <<>>)
    ELSE LET e      == cfg.edges[i]
             inputs == PresentValues(as_vec(e.from), ctx)
         IN  IF ~Contains(as_vec(e.to), node_id)
             THEN InputFromEdge(cfg, node_id, ctx, i + 1)
             ELSE IF inputs /= <<>>
                  THEN Join(inputs)
                  ELSE InputFromEdge(cfg, node_id, ctx, i + 1)

\* PipelineEngine::get_input_for_node
get_input_for_node(cfg, node_id, ctx) == InputFromEdge(cfg, node_id, ctx, 1)

\* Mutant of LastPresent: the from-list is scanned forwards (no rev()).
FirstPresent(ids, ctx) ==
    LET vals == PresentValues(ids, ctx)
    IN  IF vals = <<>> THEN <<>> ELSE vals[1]

\* from_nodes.iter().rev().find_map(|id| ctx.get(id)).unwrap_or_default()
LastPresent(ids, ctx) ==
    LET vals == PresentValues(ids, ctx)
    IN  IF vals = <<>> THEN <<>> ELSE vals[Len(vals)]

\* execute_stream, "Find output": the loop over config.edges from edge i
RECURSIVE OutputFromEdge(_, _, _)
OutputFromEdge(cfg, ctx, i) ==
    IF i > Len(cfg.edges) THEN <<>>
    ELSE LET e == cfg.edges[i]
         IN  IF ~(e.to.single /\ e.to.ids[1] = "output")
             THEN OutputFromEdge(cfg, ctx, i + 1)
             ELSE LastPresent(as_vec(e.from), ctx)

\* Mutant of find_output: the reserved source input is not taken for a node
\* that has an output.
find_node_output(cfg, ctx) ==
    OutputFromEdge(cfg, [k \in DOMAIN ctx \ {"input"} |-> ctx[k]], 1)

\* execute_stream: the string of EngineOutput::Complete
find_output(cfg, ctx) == OutputFromEdge(cfg, ctx, 1)

----------------------------------------------------------------------------
(* Node execution *)

\* str::trim on one atom
trim_atom(a) ==
    CASE a = " A\n" -> "A"
      [] a = " b "  -> "b"
      [] OTHER      -> a

\* str::to_lowercase on one atom
lower_atom(a) ==
    CASE a = "A" -> "a"
      [] a = "B" -> "b"
      [] a = "C" -> "c"
      [] a = "D" -> "d"
      [] a = "R" -> "r"
      [] a = "X" -> "x"
      [] OTHER   -> a

\* str::trim: strips the ends of the string
trim(c) == [i \in DOMAIN c |-> IF i \in {1, Len(c)} THEN trim_atom(c[i]) ELSE c[i]]

\* str::to_lowercase
to_lowercase(c) == [i \in DOMAIN c |-> lower_atom(c[i])]

\* What the LLM may answer to a routing prompt.
RouterReplies == {<<" A\n">>, <<" b ">>, <<"zzz">>}

\* What the LLM may answer to a node prompt: an echo of the input or a text.
LlmReplies(input) == {input, <<"ans">>}

\* One step of a node execution seen from outside: a call of client.chat
\* (op "chat"), a call of client.chat_with_tools with its arguments and the
\* tool calls of its response (op "chat_with_tools"), a call of tool.execute
\* (op "execute"), or a messages.push of a tool result (op "push").
TraceStep ==
    [op |-> "", ok |-> TRUE, messages |-> <<>>, has_pending |-> FALSE,
     pending |-> <<>>, schemas |-> <<>>, calls |-> <<>>, name |-> "",
     id |-> <<>>, content |-> <<>>]

\* client.chat(system_prompt, input) returning Ok or Err
ChatStep(ok, content) ==
    [TraceStep EXCEPT !.op = "chat", !.ok = ok, !.content = content]

\* Err(AgentError::LlmError(..)) of a failed chat call; trace is what the node
\* execution did before it failed
LlmError ==
    [ok |-> FALSE, content |-> <<"LlmError">>, next_nodes |-> <<>>,
     trace |-> <<ChatStep(FALSE, <<>>)>>]

\* Ok(NodeOutput { content, next_nodes })
NodeOutput(content, next_nodes) ==
    [ok |-> TRUE, content |-> content, next_nodes |-> next_nodes, trace |-> <<>>]

\* Mutant of execute_router: the reply is not matched, the first target is
\* always taken.
execute_router_first(reply, outgoing_targets) ==
    [NodeOutput(reply, IF outgoing_targets /= <<>>
                       THEN <<outgoing_targets[1]>> ELSE <<>>)
        EXCEPT !.trace = <<ChatStep(TRUE, reply)>>]

\* execute_router, after the chat call returned reply
execute_router(reply, outgoing_targets) ==
    LET decision == to_lowercase(trim(reply))
        matching == SelectSeq(outgoing_targets,
                              LAMBDA t : to_lowercase(<<t>>) = decision)
        next_nodes == IF matching /= <<>> THEN <<matching[1]>>
                      ELSE IF outgoing_targets /= <<>>
                           THEN <<outgoing_targets[1]>>
                           ELSE <<>>
    IN  [NodeOutput(reply, next_nodes) EXCEPT !.trace = <<ChatStep(TRUE, reply)>>]

----------------------------------------------------------------------------
(* The agentic tool loop: execute_node_with_tools *)

\* const MAX_TOOL_ITERATIONS
MAX_TOOL_ITERATIONS == 10

\* ToolRegistry::with_defaults: the names of the registered tools
ToolRegistry == {"fetch_url", "web_search"}

\* ToolRegistry::get(name).is_some()
registry_has(name) == name \in ToolRegistry

\* ToolCall { id, name, .. }
ToolCall(id, name) == [id |-> id, name |-> name]

\* UnifiedLlmClient::user_message
user_message(content) ==
    [role |-> "user", tool_call_id |-> <<>>, content |-> content]

\* Mutant of tool_result_message: the message does not carry the call's ID.
tool_result_message_unlabelled(tool_call_id, content) ==
    [role |-> "tool", tool_call_id |-> <<>>, content |-> content]

\* UnifiedLlmClient::tool_result_message
tool_result_message(tool_call_id, content) ==
    [role |-> "tool", tool_call_id |-> tool_call_id, content |-> content]

\* The tool names the LLM may ask for in one response; it is free to name a
\* tool that is not registered.
CallLists ==
    {<<"web_search", "fetch_url">>, <<"fetch_url", "ghost">>,
     <<"ghost", "fetch_url">>}

\* The calls of the n-th response of the provider; the provider gives every
\* call an ID of its own.
ProviderCalls(n, names) ==
    [k \in DOMAIN names |-> ToolCall(<<n, k>>, names[k])]

\* What the n-th chat_with_tools call may return: ChatResponse::Content,
\* ChatResponse::ToolCalls with a non-empty list, or an error.
ChatResponses(n, input) ==
    {[kind |-> "content", content |-> c, calls |-> <<>>] : c \in LlmReplies(input)}
    \cup {[kind |-> "tool_calls", content |-> <<>>,
           calls |-> ProviderCalls(n, names)] : names \in CallLists}
    \cup {[kind |-> "error", content |-> <<>>, calls |-> <<>>]}

\* What tool.execute may return: Ok(result) or Err(e)
ToolResults(name) ==
    {[ok |-> TRUE, content |-> <<"result of ", name>>],
     [ok |-> FALSE, content |-> <<"e">>]}

\* Mutant of Failed: the error is handed back as the node's output.
FailureSwallowed(message, trace) ==
    [ok |-> TRUE, content |-> <<"LlmError">> \o message, next_nodes |-> <<>>,
     trace |-> trace]

\* Err(AgentError::LlmError(message)) after the steps of trace
Failed(message, trace) ==
    [ok |-> FALSE, content |-> <<"LlmError">> \o message, next_nodes |-> <<>>,
     trace |-> trace]

\* tool.execute(call.arguments) returning Ok or Err
ExecuteStep(call, ok) ==
    [TraceStep EXCEPT !.op = "execute", !.ok = ok, !.name = call.name,
                      !.id = call.id]

\* messages.push(message)
PushStep(message) ==
    [TraceStep EXCEPT !.op = "push", !.id = message.tool_call_id,
                      !.content = message.content]

\* The for loop over the calls of one response, from call k: every way it can
\* end, with the message list and the steps taken
RECURSIVE execute_calls(_, _, _, _)
execute_calls(calls, k, messages, trace) ==
    IF k > Len(calls)
    THEN {[ok |-> TRUE, error |-> <<>>, messages |-> messages, trace |-> trace]}
    ELSE LET call == calls[k]
         IN  IF ~registry_has(call.name)
             THEN {[ok |-> FALSE, error |-> <<"Tool not found: ", call.name>>,
                    messages |-> messages, trace |-> trace]}
             ELSE UNION {
                    IF ~r.ok
                    THEN {[ok |-> FALSE,
                           error |-> <<"Tool execution failed: ">> \o r.content,
                           messages |-> messages,
                           trace |-> Append(trace, ExecuteStep(call, FALSE))]}
                    ELSE LET message == tool_result_message(call.id, r.content)
                         IN  execute_calls(calls, k + 1, Append(messages, message),
                                 trace \o <<ExecuteStep(call, TRUE), PushStep(message)>>)
                    : r \in ToolResults(call.name)}

\* Mutant of cap_exceeded: the cap is compared one iteration late.
cap_exceeded_late(iterations) == iterations > MAX_TOOL_ITERATIONS + 1

\* iterations > MAX_TOOL_ITERATIONS
cap_exceeded(iterations) == iterations > MAX_TOOL_ITERATIONS

\* Mutant of content_returned: the node returns the user input instead.
input_returned(content, trace) ==
    [NodeOutput(trace[1].messages[1].content, <<>>) EXCEPT !.trace = trace]

\* ChatResponse::Content(llm_response) => return Ok(llm_response.content)
content_returned(content, trace) ==
    [NodeOutput(content, <<>>) EXCEPT !.trace = trace]

\* The agentic loop from the top of an iteration: every result
\* execute_node_with_tools can return from here
RECURSIVE agentic_loop(_, _, _, _, _, _, _)
agentic_loop(input, schemas, messages, has_pending, pending, iterations, trace) ==
    LET n == iterations + 1
    IN  IF cap_exceeded(n)
        THEN {Failed(<<"Max tool iterations (", ToString(MAX_TOOL_ITERATIONS),
                       ") exceeded">>, trace)}
        ELSE UNION {
               LET chat == [TraceStep EXCEPT
                               !.op = "chat_with_tools",
                               !.ok = response.kind /= "error",
                               !.messages = messages,
                               !.has_pending = has_pending,
                               !.pending = pending,
                               !.schemas = schemas,
                               !.calls = response.calls,
                               !.content = response.content]
                   after == Append(trace, chat)
               IN  CASE response.kind = "error" -> {Failed(<<>>, after)}
                     [] response.kind = "content" ->
                            {content_returned(response.content, after)}
                     [] OTHER ->
                            UNION {
                              IF ~done.ok
                              THEN {Failed(done.error, done.trace)}
                              ELSE agentic_loop(input, schemas, done.messages, TRUE,
                                                response.calls, n, done.trace)
                              : done \in execute_calls(response.calls, 1,
                                                       messages, after)}
               : response \in ChatResponses(n, input)}

\* Mutant of tool_schemas: the names are not looked up in the registry.
tool_schemas_unfiltered(names) == names

\* The schemas of the node's tools that the registry holds, in list order
tool_schemas(names) == SelectSeq(names, LAMBDA name : registry_has(name))

\* client.chat(system_prompt, input): Ok(response.content) or the error
simple_chat(input) ==
    {[NodeOutput(r, <<>>) EXCEPT !.trace = <<ChatStep(TRUE, r)>>] :
        r \in LlmReplies(input)} \cup {LlmError}

\* execute_node_with_tools
execute_node_with_tools(input, names) ==
    IF names = <<>> THEN simple_chat(input)
    ELSE IF tool_schemas(names) = <<>> THEN simple_chat(input)
    ELSE agentic_loop(input, tool_schemas(names), <<user_message(input)>>,
                      FALSE, <<>>, 0, <<>>)

----------------------------------------------------------------------------
(* execute_node *)

\* Mutant of execute_node: a router whose chat call failed routes to its
\* first outgoing target.
execute_node_router_fallback(node_type, input, names, outgoing_targets) ==
    IF is_router(node_type)
    THEN {execute_router(r, outgoing_targets) : r \in RouterReplies}
         \cup {[execute_router_first(<<>>, outgoing_targets)
                   EXCEPT !.trace = <<ChatStep(FALSE, <<>>)>>]}
    ELSE IF requires_llm(node_type)
         THEN execute_node_with_tools(input, names)
         ELSE {NodeOutput(input, <<>>)}

\* execute_node: every result the call can return for this node and input;
\* the LLM's replies, or its failure, are the environment's choice.
execute_node(node_type, input, names, outgoing_targets) ==
    IF is_router(node_type)
    THEN {execute_router(r, outgoing_targets) : r \in RouterReplies} \cup {LlmError}
    ELSE IF requires_llm(node_type)
         THEN execute_node_with_tools(input, names)
         ELSE {NodeOutput(input, <<>>)}

----------------------------------------------------------------------------
(* The pipelines of the model *)

Pipeline(nodes, edges) == [nodes |-> nodes, edges |-> edges]

\* Scenario "linear chain": A -> B -> output
Linear ==
    Pipeline(<<NodeConfig("A", "llm"), NodeConfig("B", "llm")>>,
             <<edge("input", "A"), edge("A", "B"), edge("B", "output")>>)

\* Scenario "parallel fan-out / aggregator"
FanOut ==
    Pipeline(<<NodeConfig("A", "llm"), NodeConfig("B", "llm"),
               NodeConfig("C", "aggregator")>>,
             <<parallel_edge("input", <<"A", "B">>),
               EdgeConfig(Multiple(<<"A", "B">>), Single("C"), "direct"),
               edge("C", "output")>>)

\* Scenario "router": one conditional edge per target
RouterSplit ==
    Pipeline(<<NodeConfig("R", "router"), NodeConfig("A", "llm"),
               NodeConfig("B", "llm")>>,
             <<edge("input", "R"),
               edge_typed("R", "A", "conditional"),
               edge_typed("R", "B", "conditional"),
               edge("A", "output"), edge("B", "output")>>)

\* seed_examples, "customer-support": one conditional edge to all targets
CustomerSupport ==
    Pipeline(<<NodeConfig("R", "router"), NodeConfig("A", "llm"),
               NodeConfig("B", "llm")>>,
             <<edge("input", "R"),
               conditional_edge("R", <<"A", "B">>),
               EdgeConfig(Multiple(<<"A", "B">>), Single("output"), "direct")>>)

\* seed_examples, "document-reviewer"
DocumentReviewer ==
    Pipeline(<<NodeConfig("C", "coordinator"), NodeConfig("A", "llm"),
               NodeConfig("B", "llm"), NodeConfig("D", "aggregator")>>,
             <<edge("input", "C"),
               parallel_edge("C", <<"A", "B">>),
               EdgeConfig(Multiple(<<"A", "B">>), Single("D"), "direct"),
               edge("D", "output")>>)

\* seed_examples, "research-assistant"
ResearchAssistant ==
    Pipeline(<<NodeConfig("C", "orchestrator"), NodeConfig("A", "worker"),
               NodeConfig("B", "worker"), NodeConfig("D", "synthesizer")>>,
             <<edge("input", "C"),
               EdgeConfig(Single("C"), Multiple(<<"A", "B">>), "dynamic"),
               EdgeConfig(Multiple(<<"A", "B">>), Single("D"), "direct"),
               edge("D", "output")>>)

\* seed_examples, "code-generator": a cycle A -> B -> A
CodeGenerator ==
    Pipeline(<<NodeConfig("A", "llm"), NodeConfig("B", "evaluator")>>,
             <<edge("input", "A"), edge("A", "B"),
               edge_typed("B", "A", "conditional"), edge("B", "output")>>)

\* The pipeline whose only edge is input -> output
Passthrough == Pipeline(<<>>, <<edge("input", "output")>>)

\* A parallel edge naming the same target twice
DupParallel ==
    Pipeline(<<NodeConfig("A", "llm")>>,
             <<parallel_edge("input", <<"A", "A">>), edge("A", "output")>>)

\* Parallel edges among IDs that name no node
UnknownLoop ==
    Pipeline(<<>>,
             <<edge_typed("input", "X", "parallel"),
               edge_typed("X", "X", "parallel")>>)

\* Unknown IDs next to known ones, under a sequential and a parallel edge
UnknownSeq ==
    Pipeline(<<NodeConfig("A", "llm")>>,
             <<EdgeConfig(Single("input"), Multiple(<<"X", "A">>), "direct"),
               edge("A", "X"), edge("A", "output")>>)

UnknownPar ==
    Pipeline(<<NodeConfig("A", "llm"), NodeConfig("B", "gate")>>,
             <<parallel_edge("input", <<"X", "A">>),
               parallel_edge("A", <<"X", "B">>), edge("B", "output")>>)

\* An unknown ID under a parallel edge, another under a sequential one
UnknownBoth ==
    Pipeline(<<NodeConfig("A", "llm"), NodeConfig("B", "gate")>>,
             <<parallel_edge("input", <<"X", "A">>),
               EdgeConfig(Single("A"), Multiple(<<"Y", "B">>), "direct"),
               edge("B", "output")>>)

\* A's first incoming edge comes from C, which never runs
LateSource ==
    Pipeline(<<NodeConfig("B", "llm"), NodeConfig("A", "aggregator"),
               NodeConfig("C", "llm")>>,
             <<edge("input", "B"), edge("C", "A"), edge("B", "A"),
               edge("A", "output")>>)

\* B is a target only of an edge that also names the executed node C
SkippedBranch ==
    Pipeline(<<NodeConfig("A", "llm"), NodeConfig("B", "llm"),
               NodeConfig("C", "llm")>>,
             <<edge("input", "A"), edge("A", "C"),
               EdgeConfig(Single("A"), Multiple(<<"C", "B">>), "direct"),
               edge("B", "output")>>)

\* A router whose first target has run before the router
RouterCycle ==
    Pipeline(<<NodeConfig("A", "llm"), NodeConfig("R", "router"),
               NodeConfig("B", "llm")>>,
             <<edge("input", "A"), edge("A", "R"),
               edge_typed("R", "A", "conditional"),
               edge_typed("R", "B", "conditional"),
               edge("B", "output")>>)

\* A router whose only outgoing edge goes to the sink
RouterSink ==
    Pipeline(<<NodeConfig("R", "router")>>,
             <<edge("input", "R"), edge("R", "output")>>)

\* A router and a plain node as parallel siblings
RouterPar ==
    Pipeline(<<NodeConfig("R", "router"), NodeConfig("A", "llm"),
               NodeConfig("B", "gate"), NodeConfig("C", "gate")>>,
             <<parallel_edge("input", <<"R", "A">>),
               edge_typed("R", "B", "conditional"),
               edge_typed("R", "C", "conditional"),
               edge("A", "C"),
               EdgeConfig(Multiple(<<"B", "C">>), Single("output"), "direct")>>)

\* The output edge names B, which never runs, after A
PartialOutput ==
    Pipeline(<<NodeConfig("A", "llm"), NodeConfig("B", "llm")>>,
             <<edge("input", "A"),
               EdgeConfig(Multiple(<<"A", "B">>), Single("output"), "direct")>>)

\* Two siblings feeding the sink directly
ParallelOutput ==
    Pipeline(<<NodeConfig("A", "llm"), NodeConfig("B", "llm")>>,
             <<parallel_edge("input", <<"A", "B">>),
               EdgeConfig(Multiple(<<"A", "B">>), Single("output"), "direct")>>)

\* The sink written as a one-element list, before a plain output edge
ListSink ==
    Pipeline(<<NodeConfig("A", "llm"), NodeConfig("B", "llm")>>,
             <<edge("input", "A"),
               EdgeConfig(Single("A"), Multiple(<<"output">>), "direct"),
               edge("A", "B"), edge("B", "output")>>)

\* The start endpoint written as a one-element list
ListSource ==
    Pipeline(<<NodeConfig("A", "llm")>>,
             <<EdgeConfig(Multiple(<<"input">>), Single("A"), "direct"),
               edge("A", "output")>>)

\* A node with both registered tools, followed by a plain node
ToolAgent ==
    Pipeline(<<tools(NodeConfig("A", "llm"), <<"fetch_url", "web_search">>),
               NodeConfig("B", "gate")>>,
             <<edge("input", "A"), edge("A", "B"), edge("B", "output")>>)

\* Nodes whose tool lists name no registered tool, or only one at the end
UnknownTools ==
    Pipeline(<<tools(NodeConfig("A", "llm"), <<"ghost">>),
               tools(NodeConfig("B", "worker"), <<"ghost", "phantom">>),
               tools(NodeConfig("C", "gate"), <<"fetch_url">>),
               tools(NodeConfig("R", "router"), <<"fetch_url">>)>>,
             <<edge("input", "A"), edge("A", "B"), edge("B", "C"),
               edge("C", "R"), edge("R", "output")>>)

\* A node with a tool and a router as parallel siblings
ToolPar ==
    Pipeline(<<tools(NodeConfig("A", "llm"), <<"fetch_url">>),
               NodeConfig("R", "router"), NodeConfig("B", "gate"),
               NodeConfig("C", "aggregator")>>,
             <<parallel_edge("input", <<"A", "R">>),
               edge_typed("R", "B", "conditional"),
               edge_typed("R", "C", "conditional"),
               edge("A", "C"),
               EdgeConfig(Multiple(<<"B", "C">>), Single("output"), "direct")>>)

\* No edge reaches the sink
NoOutput == Pipeline(<<NodeConfig("A", "llm")>>, <<edge("input", "A")>>)

NamedPipelines ==
    {Linear, FanOut, RouterSplit, CustomerSupport, DocumentReviewer,
     ResearchAssistant, CodeGenerator, Passthrough, DupParallel, UnknownLoop,
     UnknownSeq, UnknownPar, LateSource, SkippedBranch, RouterCycle,
     RouterSink, RouterPar, PartialOutput, ParallelOutput, ListSink, ListSource,
     ToolAgent, UnknownTools, ToolPar, NoOutput, UnknownBoth}

\* The edges the generated pipelines are built from
GenEdges ==
    {edge("input", "A"), edge("input", "R"),
     parallel_edge("input", <<"A", "B">>),
     EdgeConfig(Single("input"), Multiple(<<"B", "A">>), "direct"),
     edge("A", "B"), edge("B", "A"), edge_typed("A", "B", "parallel"),
     conditional_edge("R", <<"A", "B">>),
     edge_typed("R", "B", "conditional"),
     edge("B", "X"),
     edge("A", "output"), edge("B", "output"), edge("input", "output"),
     EdgeConfig(Multiple(<<"A", "B">>), Single("output"), "direct")}

GenNodes ==
    <<NodeConfig("A", "llm"), NodeConfig("B", "aggregator"),
      NodeConfig("R", "router")>>

\* Every pipeline over GenNodes with at most MaxGenEdges edges of GenEdges
GenPipelines ==
    {Pipeline(GenNodes, es) :
        es \in UNION {[1..n -> GenEdges] : n \in 1..MaxGenEdges}}

Pipelines == NamedPipelines \cup GenPipelines

\* The user messages of the model: a text and the empty message
Messages == {<<"hi">>, <<>>}

----------------------------------------------------------------------------
(* Call stack and history *)

\* A frame of the recursion.  fn names the function; edge is the index of the
\* edge being processed; ids its target list; i the loop position; node and rt
\* the arguments of process_outgoing_edges; by the node whose outgoing edges
\* led here ("input" for a starting edge); batch the execute_parallel call
\* whose successor scheduling led here (0: none); mybatch, phase and data
\* belong to execute_parallel; done is the executed set at the moment the
\* frame made the call it is waiting for; lap flips on every further round
\* of a recursion that repeats itself.
Frame ==
    [fn |-> "", edge |-> 0, ids |-> <<>>, i |-> 0, node |-> "", rt |-> <<>>,
     by |-> "", batch |-> 0, mybatch |-> 0, phase |-> "", data |-> <<>>,
     done |-> {}, lap |-> 0]

\* An entry of the history.  A "run" entry is the return of execute_node for
\* node: val and ok its result, rt its next_nodes, trace the steps it took,
\* inbatch the execute_parallel call it ran in (0: a sequential step) and
\* sibling its position among that call's siblings, input the input it was
\* given.  An "end" entry is the return of one execute_stream call, when
\* another one follows: ctx the context at its end, val and ok its result.
Event ==
    [ev |-> "", node |-> "", val |-> <<>>, ok |-> TRUE, rt |-> <<>>,
     by |-> "", edge |-> 0, batch |-> 0, inbatch |-> 0,
     ctx |-> EmptyMap, exec |-> {}, followed |-> FALSE, trace |-> <<>>,
     sibling |-> 0, input |-> <<>>]

Top == stack[Len(stack)]

Popped == SubSeq(stack, 1, Len(stack) - 1)

Running == result.status = "running" /\ stack /= <<>>

\* The request ends: execute_stream returns.
Finish(status, output) ==
    /\ result' = [status |-> status, output |-> output]
    /\ stack' = <<>>

----------------------------------------------------------------------------
(* execute_stream *)

Init ==
    /\ config \in Pipelines
    /\ user_input \in Messages
    /\ context = [k \in {"input"} |-> user_input]
    /\ executed = {}
    /\ step = 0
    /\ batches = 0
    /\ log = <<>>
    /\ stack = <<[Frame EXCEPT !.fn = "stream", !.i = 1]>>
    /\ result = [status |-> "running", output |-> <<>>]
    /\ OthersIdle

\* execute_stream: the loop over start_edges calls process_edge
execute_stream_start ==
    /\ Running
    /\ Top.fn = "stream"
    /\ Top.i <= Len(start_edges(config))
    /\ stack' = Popped \o
                <<[Top EXCEPT !.i = @ + 1],
                  [Frame EXCEPT !.fn = "edge",
                                !.edge = start_edges(config)[Top.i],
                                !.by = "input"]>>
    /\ UNCHANGED <<config, user_input, context, executed, step, batches, log, result>>
    /\ UNCHANGED other_vars

\* execute_stream: after the traversal, find the output and return it
execute_stream_output ==
    /\ Running
    /\ Top.fn = "stream"
    /\ Top.i > Len(start_edges(config))
    /\ Finish("ok", find_output(config, context))
    /\ UNCHANGED <<config, user_input, context, executed, step, batches, log>>
    /\ UNCHANGED other_vars

----------------------------------------------------------------------------
(* process_edge *)

process_edge ==
    /\ Running
    /\ Top.fn = "edge"
    /\ LET e          == config.edges[Top.edge]
           target_ids == as_vec(e.to)
       IN  IF Len(target_ids) = 1 /\ target_ids[1] = "output"
           THEN /\ stack' = Popped
                /\ UNCHANGED batches
           ELSE IF e.edge_type = "parallel"
           THEN /\ stack' = Popped \o
                            <<[Top EXCEPT !.fn = "par", !.ids = target_ids,
                                          !.phase = "gather",
                                          !.mybatch = batches + 1]>>
                /\ batches' = batches + 1
           ELSE /\ stack' = Popped \o
                            <<[Top EXCEPT !.fn = "seq", !.ids = target_ids,
                                          !.i = 1]>>
                /\ UNCHANGED batches
    /\ UNCHANGED <<config, user_input, context, executed, step, log, result>>
    /\ UNCHANGED other_vars

----------------------------------------------------------------------------
(* execute_sequential *)

\* The loop is over: return Ok(())
execute_sequential_return ==
    /\ Running
    /\ Top.fn = "seq"
    /\ Top.i > Len(Top.ids)
    /\ stack' = Popped
    /\ UNCHANGED <<config, user_input, context, executed, step, batches, log, result>>
    /\ UNCHANGED other_vars

\* The target is executed, is the sink, or names no node: continue
execute_sequential_skip ==
    /\ Running
    /\ Top.fn = "seq"
    /\ Top.i <= Len(Top.ids)
    /\ LET node_id == Top.ids[Top.i]
       IN  node_id \in executed \/ node_id = "output" \/ ~HasNode(config, node_id)
    /\ stack' = Popped \o <<[Top EXCEPT !.i = @ + 1]>>
    /\ UNCHANGED <<config, user_input, context, executed, step, batches, log, result>>
    /\ UNCHANGED other_vars

\* The target is executed now, and then its outgoing edges are processed
execute_sequential_node ==
    /\ Running
    /\ Top.fn = "seq"
    /\ Top.i <= Len(Top.ids)
    /\ LET node_id == Top.ids[Top.i]
       IN  /\ ~(node_id \in executed \/ node_id = "output" \/ ~HasNode(config, node_id))
           /\ LET node  == get_node(config, node_id)[1]
                  input == get_input_for_node(config, node_id, context)
                  outgoing_targets == get_outgoing_targets(config, node_id)
                  read  == [Event EXCEPT !.ev = "read", !.node = node_id,
                                         !.val = input, !.ctx = context,
                                         !.by = Top.by, !.edge = Top.edge,
                                         !.batch = Top.batch]
              IN  \E output \in execute_node(node.node_type, input, node.tools,
                                               outgoing_targets) :
                    LET run == [Event EXCEPT !.ev = "run", !.node = node_id,
                                             !.input = input,
                                             !.val = output.content,
                                             !.ok = output.ok,
                                             !.rt = output.next_nodes,
                                             !.trace = output.trace,
                                             !.by = Top.by, !.edge = Top.edge,
                                             !.batch = Top.batch]
                        write == [Event EXCEPT !.ev = "write", !.node = node_id,
                                               !.val = output.content]
                    IN  /\ step' = step + 1
                        /\ IF output.ok
                           THEN /\ context' = MapInsert(context, node_id, output.content)
                                /\ executed' = executed \cup {node_id}
                                /\ log' = log \o <<read, run, write>>
                                /\ stack' = Popped \o
                                     <<[Top EXCEPT !.i = @ + 1],
                                       [Frame EXCEPT !.fn = "out",
                                                     !.node = node_id,
                                                     !.rt = output.next_nodes,
                                                     !.i = 1]>>
                                /\ UNCHANGED result
                           ELSE /\ log' = log \o <<read, run>>
                                /\ Finish("err", output.content)
                                /\ UNCHANGED <<context, executed>>
    /\ UNCHANGED <<config, user_input, batches>>
    /\ UNCHANGED other_vars

----------------------------------------------------------------------------
(* process_outgoing_edges *)

\* The loop is over: return Ok(())
process_outgoing_edges_return ==
    /\ Running
    /\ Top.fn = "out"
    /\ Top.i > Len(get_outgoing_edges(config, Top.node))
    /\ stack' = Popped
    /\ UNCHANGED <<config, user_input, context, executed, step, batches, log, result>>
    /\ UNCHANGED other_vars

\* Mutant of should_follow: the router's decision is not consulted.
should_follow_unrouted(edge_targets, router_targets, done) ==
    ~\E k \in DOMAIN edge_targets : edge_targets[k] \in done

\* Whether process_outgoing_edges follows an edge with these targets
should_follow(edge_targets, router_targets, done) ==
    /\ ~\E k \in DOMAIN edge_targets : edge_targets[k] \in done
    /\ \/ router_targets = <<>>
       \/ \E k \in DOMAIN edge_targets : Contains(router_targets, edge_targets[k])

\* The call about to be made is already on the stack, made with the same
\* arguments and the same executed set: no node has run since, every step in
\* between was decided by the configuration and the executed set alone, and
\* the recursion will make the same call again without end.
Reentered ==
    \E k \in 1..(Len(stack) - 1) :
        /\ stack[k].fn = "out"
        /\ stack[k].node = Top.node
        /\ stack[k].rt = Top.rt
        /\ stack[k].i = Top.i + 1
        /\ stack[k].done = executed

\* One iteration of the loop over the outgoing edges of Top.node
process_outgoing_edges ==
    /\ Running
    /\ Top.fn = "out"
    /\ Top.i <= Len(get_outgoing_edges(config, Top.node))
    /\ LET next_edge    == get_outgoing_edges(config, Top.node)[Top.i]
           edge_targets == as_vec(config.edges[next_edge].to)
           follow       == should_follow(edge_targets, Top.rt, executed)
           considered   == [Event EXCEPT !.ev = "consider", !.node = Top.node,
                                         !.edge = next_edge, !.rt = Top.rt,
                                         !.exec = executed, !.followed = follow,
                                         !.batch = Top.batch]
       IN  IF ~follow
           THEN /\ stack' = Popped \o <<[Top EXCEPT !.i = @ + 1]>>
                /\ log' = Append(log, considered)
           ELSE IF Reentered
           THEN /\ stack' = Popped \o <<[Top EXCEPT !.lap = 1 - @]>>
                /\ UNCHANGED log
           ELSE /\ stack' = Popped \o
                            <<[Top EXCEPT !.i = @ + 1, !.done = executed],
                              [Frame EXCEPT !.fn = "edge", !.edge = next_edge,
                                            !.by = Top.node,
                                            !.batch = Top.batch]>>
                /\ log' = Append(log, considered)
    /\ UNCHANGED <<config, user_input, context, executed, step, batches, result>>
    /\ UNCHANGED other_vars

----------------------------------------------------------------------------
(* execute_parallel *)

\* "Gather node data": the targets not yet executed that name a node, each
\* with its input materialized now
execute_parallel_gather ==
    /\ Running
    /\ Top.fn = "par"
    /\ Top.phase = "gather"
    /\ LET sel  == SelectSeq(Top.ids,
                             LAMBDA id : id \notin executed /\ HasNode(config, id))
           node_data ==
               [k \in DOMAIN sel |->
                   [node_id |-> sel[k],
                    node_type |-> get_node(config, sel[k])[1].node_type,
                    tools |-> get_node(config, sel[k])[1].tools,
                    input |-> get_input_for_node(config, sel[k], context),
                    outgoing_targets |-> get_outgoing_targets(config, sel[k]),
                    state |-> "ready", finished |-> 0,
                    output |-> NodeOutput(<<>>, <<>>)]]
           reads ==
               [k \in DOMAIN sel |->
                   [Event EXCEPT !.ev = "read", !.node = sel[k],
                                 !.val = node_data[k].input, !.ctx = context,
                                 !.by = Top.by, !.edge = Top.edge,
                                 !.batch = Top.batch, !.inbatch = Top.mybatch]]
       IN  /\ stack' = Popped \o <<[Top EXCEPT !.phase = "run", !.data = node_data]>>
           /\ log' = log \o reads
    /\ UNCHANGED <<config, user_input, context, executed, step, batches, result>>
    /\ UNCHANGED other_vars

\* join_all polls the futures in order: the next sibling takes its step number
\* and starts execute_node
execute_parallel_start ==
    /\ Running
    /\ Top.fn = "par"
    /\ Top.phase = "run"
    /\ \E k \in DOMAIN Top.data :
          /\ Top.data[k].state = "ready"
          /\ \A j \in 1..(k - 1) : Top.data[j].state /= "ready"
          /\ stack' = Popped \o <<[Top EXCEPT !.data[k].state = "running"]>>
    /\ step' = step + 1
    /\ UNCHANGED <<config, user_input, context, executed, batches, log, result>>
    /\ UNCHANGED other_vars

\* A running sibling's execute_node returns; siblings finish in any order
execute_parallel_finish ==
    /\ Running
    /\ Top.fn = "par"
    /\ Top.phase = "run"
    /\ \E k \in DOMAIN Top.data :
          /\ Top.data[k].state = "running"
          /\ \E output \in execute_node(Top.data[k].node_type, Top.data[k].input,
                                        Top.data[k].tools,
                                        Top.data[k].outgoing_targets) :
                /\ stack' = Popped \o
                            <<[Top EXCEPT !.data[k].state = "done",
                                          !.data[k].finished =
                                              1 + Cardinality({d \in DOMAIN Top.data :
                                                     Top.data[d].state = "done"}),
                                          !.data[k].output = output]>>
                /\ log' = Append(log,
                            [Event EXCEPT !.ev = "run", !.node = Top.data[k].node_id,
                                          !.input = Top.data[k].input,
                                          !.val = output.content, !.ok = output.ok,
                                          !.rt = output.next_nodes,
                                          !.trace = output.trace,
                                          !.by = Top.by, !.edge = Top.edge,
                                          !.batch = Top.batch,
                                          !.inbatch = Top.mybatch,
                                          !.sibling = k])
    /\ UNCHANGED <<config, user_input, context, executed, step, batches, result>>
    /\ UNCHANGED other_vars

\* Mutant of StoreResults: the results are taken in the order in which the
\* siblings finished.
RECURSIVE StoreInFinishOrder(_, _, _)
StoreInFinishOrder(data, k, acc) ==
    IF k > Len(data) THEN acc
    ELSE LET d == data[CHOOSE i \in DOMAIN data : data[i].finished = k]
         IN  IF ~d.output.ok
             THEN [acc EXCEPT !.ok = FALSE, !.err = d.output.content]
             ELSE StoreInFinishOrder(data, k + 1,
                     [acc EXCEPT !.context = MapInsert(@, d.node_id, d.output.content),
                                 !.executed = @ \cup {d.node_id},
                                 !.writes = Append(@,
                                     [Event EXCEPT !.ev = "write", !.node = d.node_id,
                                                   !.val = d.output.content])])

\* Mutant of StoreResults: the loop goes on after a failed result, and the
\* last error is the one returned.
RECURSIVE StoreLastError(_, _, _)
StoreLastError(data, k, acc) ==
    IF k > Len(data) THEN acc
    ELSE IF ~data[k].output.ok
    THEN StoreLastError(data, k + 1,
            [acc EXCEPT !.ok = FALSE, !.err = data[k].output.content])
    ELSE StoreLastError(data, k + 1,
            [acc EXCEPT !.context = MapInsert(@, data[k].node_id, data[k].output.content),
                        !.executed = @ \cup {data[k].node_id},
                        !.writes = Append(@,
                            [Event EXCEPT !.ev = "write", !.node = data[k].node_id,
                                          !.val = data[k].output.content])])

\* Mutant of StoreResults: the loop ends after the first result.
StoreFirstResult(data, k, acc) ==
    IF k > Len(data) THEN acc
    ELSE IF ~data[k].output.ok
    THEN [acc EXCEPT !.ok = FALSE, !.err = data[k].output.content]
    ELSE [acc EXCEPT !.context = MapInsert(@, data[k].node_id, data[k].output.content),
                     !.executed = @ \cup {data[k].node_id},
                     !.writes = Append(@,
                         [Event EXCEPT !.ev = "write", !.node = data[k].node_id,
                                       !.val = data[k].output.content])]

\* Mutant of StoreResults: the outputs are stored, the nodes are not marked
\* as executed.
RECURSIVE StoreUnmarked(_, _, _)
StoreUnmarked(data, k, acc) ==
    IF k > Len(data) THEN acc
    ELSE IF ~data[k].output.ok
    THEN [acc EXCEPT !.ok = FALSE, !.err = data[k].output.content]
    ELSE StoreUnmarked(data, k + 1,
            [acc EXCEPT !.context = MapInsert(@, data[k].node_id, data[k].output.content),
                        !.writes = Append(@,
                            [Event EXCEPT !.ev = "write", !.node = data[k].node_id,
                                          !.val = data[k].output.content])])

\* "Store results": the loop over the results, in node_data order, from entry
\* k; it stops at the first failed result
RECURSIVE StoreResults(_, _, _)
StoreResults(data, k, acc) ==
    IF k > Len(data) THEN acc
    ELSE IF ~data[k].output.ok
    THEN [acc EXCEPT !.ok = FALSE, !.err = data[k].output.content]
    ELSE StoreResults(data, k + 1,
            [acc EXCEPT !.context = MapInsert(@, data[k].node_id, data[k].output.content),
                        !.executed = @ \cup {data[k].node_id},
                        !.writes = Append(@,
                            [Event EXCEPT !.ev = "write", !.node = data[k].node_id,
                                          !.val = data[k].output.content])])

\* router_decisions.get(node_id) after the store loop; no entry gives []
router_decision(data, node_id) ==
    LET hits == SelectSeq(data, LAMBDA d : d.node_id = node_id
                                           /\ d.output.next_nodes /= <<>>)
    IN  IF hits = <<>> THEN <<>> ELSE hits[Len(hits)].output.next_nodes

\* Mutant of join_all_ready: the join returns as soon as one future has
\* failed (try_join_all).
try_join_all_ready(data) ==
    \/ \A k \in DOMAIN data : data[k].state = "done"
    \/ \E k \in DOMAIN data : data[k].state = "done" /\ ~data[k].output.ok

\* join_all(futures).await returns when every future has returned
join_all_ready(data) == \A k \in DOMAIN data : data[k].state = "done"

\* join_all has returned: store the results, or fail with the first error
execute_parallel_store ==
    /\ Running
    /\ Top.fn = "par"
    /\ Top.phase = "run"
    /\ join_all_ready(Top.data)
    /\ LET stored == StoreResults(Top.data, 1,
                        [context |-> context, executed |-> executed,
                         writes |-> <<>>, ok |-> TRUE, err |-> <<>>])
       IN  /\ context' = stored.context
           /\ executed' = stored.executed
           /\ log' = log \o stored.writes
           /\ IF stored.ok
              THEN /\ stack' = Popped \o <<[Top EXCEPT !.phase = "out", !.i = 1]>>
                   /\ UNCHANGED result
              ELSE Finish("err", stored.err)
    /\ UNCHANGED <<config, user_input, step, batches>>
    /\ UNCHANGED other_vars

\* "Process outgoing edges": the loop over target_ids calls
\* process_outgoing_edges for every target, executed in this call or not
execute_parallel_outgoing ==
    /\ Running
    /\ Top.fn = "par"
    /\ Top.phase = "out"
    /\ Top.i <= Len(Top.ids)
    /\ stack' = Popped \o
                <<[Top EXCEPT !.i = @ + 1],
                  [Frame EXCEPT !.fn = "out", !.node = Top.ids[Top.i],
                                !.rt = router_decision(Top.data, Top.ids[Top.i]),
                                !.i = 1, !.batch = Top.mybatch]>>
    /\ UNCHANGED <<config, user_input, context, executed, step, batches, log, result>>
    /\ UNCHANGED other_vars

\* The loop is over: return Ok(())
execute_parallel_return ==
    /\ Running
    /\ Top.fn = "par"
    /\ Top.phase = "out"
    /\ Top.i > Len(Top.ids)
    /\ stack' = Popped
    /\ UNCHANGED <<config, user_input, context, executed, step, batches, log, result>>
    /\ UNCHANGED other_vars

----------------------------------------------------------------------------
(* Specification *)

Next ==
    \/ execute_stream_start
    \/ execute_stream_output
    \/ process_edge
    \/ execute_sequential_return
    \/ execute_sequential_skip
    \/ execute_sequential_node
    \/ process_outgoing_edges_return
    \/ process_outgoing_edges
    \/ execute_parallel_gather
    \/ execute_parallel_start
    \/ execute_parallel_finish
    \/ execute_parallel_store
    \/ execute_parallel_outgoing
    \/ execute_parallel_return

Spec == Init /\ [][Next]_vars

----------------------------------------------------------------------------
(* Two executions of one pipeline on one input *)

\* The "end" entries of the history
Ends == {i \in DOMAIN log : log[i].ev = "end"}

\* The pipelines that are executed twice
TwicePipelines ==
    {FanOut, RouterPar, CodeGenerator, UnknownSeq, UnknownPar, DupParallel,
     ParallelOutput}

TwiceInit ==
    /\ config \in TwicePipelines
    /\ user_input \in Messages
    /\ context = [k \in {"input"} |-> user_input]
    /\ executed = {}
    /\ step = 0
    /\ batches = 0
    /\ log = <<>>
    /\ stack = <<[Frame EXCEPT !.fn = "stream", !.i = 1]>>
    /\ result = [status |-> "running", output |-> <<>>]
    /\ OthersIdle

\* execute_stream has returned and is called again, on the same engine with
\* the same user message: a new context, executed set and step counter
execute_again ==
    /\ result.status /= "running"
    /\ Ends = {}
    /\ log' = Append(log, [Event EXCEPT !.ev = "end", !.ctx = context,
                                        !.val = result.output,
                                        !.ok = (result.status = "ok")])
    /\ context' = [k \in {"input"} |-> user_input]
    /\ executed' = {}
    /\ step' = 0
    /\ stack' = <<[Frame EXCEPT !.fn = "stream", !.i = 1]>>
    /\ result' = [status |-> "running", output |-> <<>>]
    /\ UNCHANGED <<config, user_input, batches>>
    /\ UNCHANGED other_vars

TwiceNext == Next \/ execute_again

TwiceSpec == TwiceInit /\ [][TwiceNext]_vars

\* The runtime keeps polling the request's task: a step that can be taken is
\* taken.
FairSpec == Spec /\ WF_vars(Next)

TypeOK ==
    /\ config \in Pipelines
    /\ user_input \in Messages
    /\ "input" \in DOMAIN context
    /\ executed \subseteq {config.nodes[i].id : i \in DOMAIN config.nodes}
    /\ step \in Nat
    /\ batches \in Nat
    /\ result.status \in {"running", "ok", "err"}

----------------------------------------------------------------------------
(* Vocabulary of the properties *)

NodeIds(cfg) == {cfg.nodes[i].id : i \in DOMAIN cfg.nodes}

Reads == {i \in DOMAIN log : log[i].ev = "read"}

Runs == {i \in DOMAIN log : log[i].ev = "run"}

Writes == {i \in DOMAIN log : log[i].ev = "write"}

Considered == {i \in DOMAIN log : log[i].ev = "consider"}

Targets(e) == Range(as_vec(config.edges[e].to))

Sources(e) == Range(as_vec(config.edges[e].from))

IsRouterNode(id) == HasNode(config, id) /\ is_router(get_node(config, id)[1].node_type)

Returned == result.status = "ok"

\* The last write of key n before position i of the history, 0 if none
LastWriteBefore(n, i) ==
    LET ws == {w \in Writes : w < i /\ log[w].node = n}
    IN  IF ws = {} THEN 0 ELSE CHOOSE w \in ws : \A v \in ws : v <= w

----------------------------------------------------------------------------
(* C1 *)

\* C1: in one request no node is executed more than once and no context key
\* is written more than once, whatever the pipeline (cycles and parallel
\* edges that name a target twice included).
C1_AtMostOnce ==
    \A n \in NodeIds(config) :
        /\ Cardinality({i \in Runs : log[i].node = n}) <= 1
        /\ Cardinality({i \in Writes : log[i].node = n}) <= 1

----------------------------------------------------------------------------
(* C2 *)

\* C2: when a node is scheduled from the outgoing edges of a sibling of a
\* parallel call, every sibling that call executed has written its output to
\* the context before the node's input is materialized; and in the fan-out
\* input -> {A,B} (parallel), {A,B} -> C, the input of C is A's output, the
\* separator, B's output, in every interleaving of the siblings.
C2_SiblingsWrittenBeforeSuccessors ==
    /\ \A i \in Reads :
          log[i].batch > 0 =>
             \A j \in Runs :
                (log[j].inbatch = log[i].batch /\ log[j].ok) =>
                   /\ j < i
                   /\ \E w \in Writes :
                         /\ j < w /\ w < i
                         /\ log[w].node = log[j].node
                         /\ log[w].val = log[j].val
                   /\ log[j].node \in DOMAIN log[i].ctx
    /\ \A i \in Reads :
          (config = FanOut /\ log[i].node = "C") =>
             \E a \in Runs, b \in Runs :
                /\ log[a].node = "A" /\ log[b].node = "B"
                /\ log[i].val = log[a].val \o <<Separator>> \o log[b].val

\* C2 witness: C has read its input in the fan-out after B's execute_node
\* returned before A's, and the two outputs differ.
C2_Witness ==
    /\ config = FanOut
    /\ \E i \in Reads, a \in Runs, b \in Runs :
          /\ log[i].node = "C" /\ log[i].batch > 0
          /\ log[a].node = "A" /\ log[b].node = "B"
          /\ b < a
          /\ log[a].val /= log[b].val
          /\ log[i].val = log[a].val \o <<Separator>> \o log[b].val

----------------------------------------------------------------------------
(* C3 *)

\* C3 as stated: whenever the outgoing edges of a router R are processed, an
\* edge is followed if and only if its target list intersects the next-nodes
\* list R reported.
C3_FollowedIffIntersects ==
    \A i \in Considered :
        IsRouterNode(log[i].node) =>
           (log[i].followed <=> Targets(log[i].edge) \cap Range(log[i].rt) /= {})

\* C3 amended: when the outgoing edges of a router R are processed with a
\* next-nodes list (the list R reported, or the empty list when R reported
\* none), an edge is followed if and only if none of its targets has been
\* executed already and the list is empty or intersects the edge's target
\* list.
C3_FollowedIffIntersectsAndFresh ==
    \A i \in Considered :
        IsRouterNode(log[i].node) =>
           /\ log[i].rt /= <<>> =>
                 \E j \in Runs : j < i /\ log[j].node = log[i].node
                                 /\ log[j].rt = log[i].rt
           /\ log[i].followed <=>
                 /\ Targets(log[i].edge) \cap log[i].exec = {}
                 /\ \/ log[i].rt = <<>>
                    \/ Targets(log[i].edge) \cap Range(log[i].rt) /= {}

\* C3 witness: a router's edge to the target it chose was not followed,
\* because the target had run before, and another of its edges was skipped
\* for not matching.
C3_Witness ==
    /\ \E i \in Considered :
          /\ IsRouterNode(log[i].node) /\ log[i].rt /= <<>>
          /\ Targets(log[i].edge) \cap Range(log[i].rt) /= {}
          /\ Targets(log[i].edge) \cap log[i].exec /= {}
          /\ ~log[i].followed
    /\ \E i \in Considered :
          /\ IsRouterNode(log[i].node) /\ log[i].rt /= <<>>
          /\ Targets(log[i].edge) \cap Range(log[i].rt) = {}
          /\ Targets(log[i].edge) \cap log[i].exec = {}
          /\ ~log[i].followed

----------------------------------------------------------------------------
(* C4 *)

\* C4: when router R reported the single next node t, every node executed
\* through an edge followed from R that is one of R's outgoing targets is t,
\* for separate conditional edges and for one multi-target edge alike.
C4_OnlySelectedTargetRuns ==
    \A c \in Considered, j \in Runs :
        ( /\ IsRouterNode(log[c].node)
          /\ Len(log[c].rt) = 1
          /\ log[c].followed
          /\ c < j
          /\ log[j].by = log[c].node
          /\ log[j].edge = log[c].edge
          /\ Contains(get_outgoing_targets(config, log[c].node), log[j].node) )
        => log[j].node = log[c].rt[1]

----------------------------------------------------------------------------
(* C5 *)

\* C5: in sequential traversal, when a node reached through the outgoing
\* edges of node N materializes its input, N's output has been written to
\* the context and the context holds it under key N.
C5_WriteBeforeSuccessorRead ==
    \A i \in Reads :
        (log[i].by /= "input" /\ log[i].batch = 0) =>
           /\ LastWriteBefore(log[i].by, i) /= 0
           /\ log[i].by \in DOMAIN log[i].ctx
           /\ log[i].ctx[log[i].by] = log[LastWriteBefore(log[i].by, i)].val
           /\ \E j \in Runs : /\ j < LastWriteBefore(log[i].by, i)
                              /\ log[j].node = log[i].by
                              /\ log[j].val = log[i].ctx[log[i].by]

\* C5 witness: B, reached through A's direct edge, has materialized an input
\* made of A's output, which is not the user message.
C5_Witness ==
    \E i \in Reads :
        /\ log[i].by = "A" /\ log[i].node = "B" /\ log[i].batch = 0
        /\ config.edges[log[i].edge].edge_type = "direct"
        /\ log[i].ctx["A"] /= user_input
        /\ log[i].val = log[i].ctx["A"]

----------------------------------------------------------------------------
(* C6 *)

\* The IDs reachable from the IDs of seen along edges (from-list to to-list)
RECURSIVE ReachableFrom(_, _)
ReachableFrom(cfg, seen) ==
    LET more == UNION {Range(as_vec(cfg.edges[e].to)) :
                          e \in {d \in DOMAIN cfg.edges :
                                    Range(as_vec(cfg.edges[d].from)) \cap seen /= {}}}
    IN  IF more \subseteq seen THEN seen ELSE ReachableFrom(cfg, seen \cup more)

AllEndpointsKnown(cfg) ==
    \A e \in DOMAIN cfg.edges :
        Range(as_vec(cfg.edges[e].from)) \cup Range(as_vec(cfg.edges[e].to))
            \subseteq NodeIds(cfg) \cup {"input", "output"}

NoRouters(cfg) == \A i \in DOMAIN cfg.nodes : ~is_router(cfg.nodes[i].node_type)

\* C6: in a pipeline without routers whose edge endpoints are all known IDs,
\* every node reachable from input has been executed when execute_stream
\* returns successfully.
C6_ReachableExecuted ==
    (Returned /\ NoRouters(config) /\ AllEndpointsKnown(config)) =>
        (ReachableFrom(config, {"input"}) \cap NodeIds(config)) \subseteq executed

----------------------------------------------------------------------------
(* C7 *)

\* C7: execute_stream terminates (returns a result or an error) for every
\* pipeline, cyclic graphs and edges naming unknown IDs included.
C7_Terminates == <>(result.status \in {"ok", "err"})

----------------------------------------------------------------------------
(* C8 *)

\* The edges, in declaration order, whose to-list contains the node
IncomingEdges(node_id) ==
    {e \in DOMAIN config.edges : node_id \in Targets(e)}

Least(S) == CHOOSE x \in S : \A y \in S : x <= y

Greatest(S) == CHOOSE x \in S : \A y \in S : y <= x

\* The context values of the from-IDs of edge e, joined in from-list order
JoinedSources(e, ctx) == Join(PresentValues(as_vec(config.edges[e].from), ctx))

HasValue(e, ctx) == Sources(e) \cap DOMAIN ctx /= {}

\* C8 as stated: a node's input comes from its first incoming edge: the
\* present values of that edge's from-IDs, joined; if none of them has a
\* value the input is context["input"], whatever later incoming edges hold.
C8_FirstIncomingEdgeWins ==
    \A i \in Reads :
        LET inc == IncomingEdges(log[i].node)
            ctx == log[i].ctx
        IN  log[i].val =
               IF inc /= {} /\ HasValue(Least(inc), ctx)
               THEN JoinedSources(Least(inc), ctx)
               ELSE ctx["input"]

\* C8 amended: a node's input comes from the first incoming edge, in
\* declaration order, at least one of whose from-IDs has a context value:
\* those values joined in from-list order; if no incoming edge has one, the
\* input is context["input"].
C8_FirstIncomingEdgeWithValueWins ==
    \A i \in Reads :
        LET ctx == log[i].ctx
            inc == {e \in IncomingEdges(log[i].node) : HasValue(e, ctx)}
        IN  log[i].val =
               IF inc /= {} THEN JoinedSources(Least(inc), ctx) ELSE ctx["input"]

\* C8 witness: a node has read its input from a later incoming edge because
\* its first incoming edge had no value, and the input is not the user message.
C8_Witness ==
    \E i \in Reads :
        LET inc == IncomingEdges(log[i].node)
        IN  /\ inc /= {}
            /\ ~HasValue(Least(inc), log[i].ctx)
            /\ \E e \in inc : HasValue(e, log[i].ctx)
            /\ log[i].val /= log[i].ctx["input"]

----------------------------------------------------------------------------
(* C9 *)

\* The edges whose to is the single ID output
OutputEdges == {e \in DOMAIN config.edges :
                   /\ config.edges[e].to.single
                   /\ as_vec(config.edges[e].to) = <<"output">>}

\* C9: the returned string is the context value of the last from-ID with a
\* value of the first edge whose to is the single ID output; it is empty if
\* that edge has no from-ID with a value or if there is no such edge.
C9_OutputOfFirstOutputEdge ==
    Returned =>
        result.output =
           IF OutputEdges = {} THEN <<>>
           ELSE LET from == as_vec(config.edges[Least(OutputEdges)].from)
                    have == {k \in DOMAIN from : from[k] \in DOMAIN context}
                IN  IF have = {} THEN <<>> ELSE context[from[Greatest(have)]]

\* C9 witness: the request returned the value of a from-ID that is not the
\* first of the output edge's list, and it differs from the first one's value.
C9_Witness ==
    /\ Returned
    /\ OutputEdges /= {}
    /\ LET from == as_vec(config.edges[Least(OutputEdges)].from)
       IN  /\ Len(from) = 2
           /\ from[1] \in DOMAIN context /\ from[2] \in DOMAIN context
           /\ context[from[1]] /= context[from[2]]
           /\ result.output = context[from[2]]

----------------------------------------------------------------------------
(* C10 *)

OnlyInputToOutput == config.edges = <<edge("input", "output")>>

\* C10 as stated: the pipeline whose only edge is input -> output returns
\* the empty string for every user message.
C10_PassthroughReturnsEmpty ==
    (Returned /\ OnlyInputToOutput) => result.output = <<>>

\* C10 amended: the pipeline whose only edge is input -> output returns the
\* user message unchanged.
C10_PassthroughReturnsMessage ==
    (Returned /\ OnlyInputToOutput) => result.output = user_input

\* C10 witness: the input -> output pipeline has returned a non-empty message.
C10_Witness ==
    /\ Returned /\ OnlyInputToOutput
    /\ user_input /= <<>>
    /\ result.output = user_input

----------------------------------------------------------------------------
(* C11 *)

\* The edges whose from-list is the one ID input, in either endpoint form
InputEdgesAsVec == {e \in DOMAIN config.edges :
                       as_vec(config.edges[e].from) = <<"input">>}

\* The edges whose to-list is the one ID output, in either endpoint form
OutputEdgesAsVec == {e \in DOMAIN config.edges :
                        as_vec(config.edges[e].to) = <<"output">>}

\* C11: an endpoint Single(x) and an endpoint Multiple([x]) are traversed
\* alike, the start endpoint input and the sink endpoint output included:
\* when the request returns, the nodes named by every edge whose from-list is
\* [input] have been executed, and the output is read from the first edge
\* whose to-list is [output], in whichever of the two forms the endpoints are
\* written.
C11_EndpointFormIrrelevant ==
    Returned =>
        /\ \A e \in InputEdgesAsVec :
              (Targets(e) \cap NodeIds(config)) \subseteq executed
        /\ result.output =
              IF OutputEdgesAsVec = {} THEN <<>>
              ELSE LastPresent(as_vec(config.edges[Least(OutputEdgesAsVec)].from),
                               context)

----------------------------------------------------------------------------
(* Vocabulary of the tool loop properties *)

\* The positions of the steps of kind op in a trace
StepsOf(t, op) == {i \in DOMAIN t : t[i].op = op}

\* The chat_with_tools calls of a trace that returned tool calls
ToolCallResponses(t) == {i \in StepsOf(t, "chat_with_tools") : t[i].calls /= <<>>}

\* Every tool call of every response was looked up and executed with success
AllCallsSucceeded(t) ==
    /\ \A i \in StepsOf(t, "execute") : t[i].ok
    /\ \A i \in ToolCallResponses(t) :
          \A k \in DOMAIN t[i].calls : registry_has(t[i].calls[k].name)

\* The error of a failed run is an AgentError::LlmError
IsLlmError(e) == ~e.ok /\ e.val /= <<>> /\ e.val[1] = "LlmError"

----------------------------------------------------------------------------
(* C12 *)

----------------------------------------------------------------------------
(* C13 *)

\* The chat_with_tools calls of a trace that returned ChatResponse::Content
ContentResponses(t) ==
    {i \in StepsOf(t, "chat_with_tools") : t[i].ok /\ t[i].calls = <<>>}

\* C13: the agentic loop returns the content of the first Content response:
\* when the LLM has returned tool calls k times (0 <= k <= 9) and then
\* content, the node succeeds with that content as its output, and it has
\* made exactly k + 1 chat calls, the content response being the last.
C13_FirstContentReturned ==
    \A j \in Runs :
        LET t == log[j].trace
        IN  \A i \in ContentResponses(t) :
               LET k == Cardinality(ToolCallResponses(t))
               IN  /\ log[j].ok
                   /\ log[j].val = t[i].content
                   /\ i = Len(t)
                   /\ k <= 9
                   /\ \A c \in StepsOf(t, "chat_with_tools") \ {i} :
                         c \in ToolCallResponses(t)
                   /\ Cardinality(StepsOf(t, "chat_with_tools")) = k + 1
                   /\ Cardinality(StepsOf(t, "chat")) = 0

\* C13 witness: a node whose LLM returned tool calls 9 times and then a
\* content that is not the node's input has written that content.
C13_Witness ==
    \E j \in Runs, w \in Writes :
        LET t == log[j].trace
        IN  /\ Cardinality(ToolCallResponses(t)) = 9
            /\ Len(t) \in ContentResponses(t)
            /\ t[Len(t)].content /= t[1].messages[1].content
            /\ j < w /\ log[w].node = log[j].node
            /\ log[w].val = t[Len(t)].content

----------------------------------------------------------------------------
(* The Anthropic message conversion: fissio-llm/src/unified.rs *)

\* AnthropicToolMessage::user: a user turn with one text block
anthropic_user(text) ==
    [role |-> "user", block |-> "text", ids |-> <<>>, text |-> text]

\* AnthropicToolMessage::assistant_tool_use: an assistant turn with one
\* tool_use block per call
assistant_tool_use(tool_calls) ==
    [role |-> "assistant", block |-> "tool_use",
     ids |-> [k \in DOMAIN tool_calls |-> tool_calls[k].id], text |-> <<>>]

\* AnthropicToolMessage::tool_results: a user turn with one tool_result block
\* per collected result
anthropic_tool_results(results) ==
    [role |-> "user", block |-> "tool_result",
     ids |-> [k \in DOMAIN results |-> results[k].tool_call_id], text |-> <<>>]

\* The flush of the collected tool results: the assistant turn of the pending
\* calls, if there are any, and then the tool_result turn
flush_tool_results(has_pending, pending_tool_calls, results) ==
    IF results = <<>> THEN <<>>
    ELSE (IF has_pending THEN <<assistant_tool_use(pending_tool_calls)>> ELSE <<>>)
         \o <<anthropic_tool_results(results)>>

\* convert_to_anthropic_messages: the loop over messages from message i
RECURSIVE convert_from(_, _, _, _, _, _)
convert_from(messages, i, has_pending, pending_tool_calls, converted, results) ==
    IF i > Len(messages)
    THEN converted \o flush_tool_results(has_pending, pending_tool_calls, results)
    ELSE IF messages[i].role = "user"
    THEN convert_from(messages, i + 1, has_pending, pending_tool_calls,
             converted \o flush_tool_results(has_pending, pending_tool_calls, results)
                    \o <<anthropic_user(messages[i].content)>>,
             <<>>)
    ELSE IF messages[i].role = "tool"
    THEN convert_from(messages, i + 1, has_pending, pending_tool_calls,
             converted, Append(results, messages[i]))
    ELSE convert_from(messages, i + 1, has_pending, pending_tool_calls,
             converted, results)

\* UnifiedLlmClient::convert_to_anthropic_messages
convert_to_anthropic_messages(messages, has_pending, pending_tool_calls) ==
    convert_from(messages, 1, has_pending, pending_tool_calls, <<>>, <<>>)

----------------------------------------------------------------------------
(* C14 *)

\* C14: in the message sequence every chat_with_tools call of the tool loop
\* sends to the Anthropic backend, every user turn carrying tool_result
\* blocks comes right after an assistant turn whose tool_use IDs are exactly
\* the tool_use_ids of those results, however many iterations the loop has
\* made.
C14_ToolResultsAnswerPrecedingToolUse ==
    \A j \in Runs :
        LET t == log[j].trace
        IN  \A i \in StepsOf(t, "chat_with_tools") :
               LET sent == convert_to_anthropic_messages(
                               t[i].messages, t[i].has_pending, t[i].pending)
               IN  \A m \in DOMAIN sent :
                      sent[m].block = "tool_result" =>
                         /\ m > 1
                         /\ sent[m - 1].role = "assistant"
                         /\ sent[m - 1].block = "tool_use"
                         /\ Range(sent[m - 1].ids) = Range(sent[m].ids)

----------------------------------------------------------------------------
(* C15 *)

\* The node executions that failed
FailedRuns == {j \in Runs : ~log[j].ok}

\* The failed node executions of the same execute_parallel call as run j
\* (j alone for a sequential step)
FailedSiblings(j) ==
    IF log[j].inbatch = 0 THEN {j}
    ELSE {f \in FailedRuns : log[f].inbatch = log[j].inbatch}

\* After the failed run j nothing is scheduled: no input is materialized, and
\* the only node executions that still return are those of siblings started
\* by the same execute_parallel call; until they have, the request waits in
\* that call's join_all.
NothingScheduledAfter(j) ==
    /\ \A i \in Reads : i < j
    /\ \A i \in Runs :
          i > j => (log[j].inbatch > 0 /\ log[i].inbatch = log[j].inbatch)
    /\ result.status = "running" =>
          /\ log[j].inbatch > 0
          /\ Top.fn = "par" /\ Top.phase = "run"
          /\ Top.mybatch = log[j].inbatch

\* C15 as stated: if a node execution fails, in a sequential step or as a
\* parallel sibling, execute_stream returns that node's error, no node that
\* would have been scheduled after it is executed, and no output string is
\* returned.
C15_FailureReturnsThatError ==
    \A j \in FailedRuns :
        /\ result.status /= "ok"
        /\ result.status = "err" => result.output = log[j].val
        /\ NothingScheduledAfter(j)

\* C15 amended: if a node execution fails, execute_stream returns an error
\* and no output string, and no node is scheduled after the failure; the
\* error is the failed node's in a sequential step, and in a parallel call,
\* once all siblings have finished, the error of the failed sibling that
\* comes first in the edge's target list.
C15_FailureReturnsFirstError ==
    \A j \in FailedRuns :
        /\ result.status /= "ok"
        /\ result.status = "err" =>
              \E f \in FailedSiblings(j) :
                 /\ \A g \in FailedSiblings(j) : log[f].sibling <= log[g].sibling
                 /\ result.output = log[f].val
        /\ NothingScheduledAfter(j)

\* C15 witness: two parallel siblings failed with different errors, the
\* second of the target list first, and the request returned the error of
\* the first of the list.
C15_Witness ==
    /\ result.status = "err"
    /\ \E f \in FailedRuns, g \in FailedRuns :
          /\ log[f].inbatch > 0 /\ log[g].inbatch = log[f].inbatch
          /\ log[f].sibling < log[g].sibling
          /\ g < f
          /\ log[f].val /= log[g].val
          /\ result.output = log[f].val

----------------------------------------------------------------------------
(* C16 *)

\* The tool.execute calls of a trace that returned an error
FailedExecutes(t) == {i \in StepsOf(t, "execute") : ~t[i].ok}

\* The responses of a trace that name a tool missing from the registry
MissingToolResponses(t) ==
    {i \in ToolCallResponses(t) :
        \E k \in DOMAIN t[i].calls : t[i].calls[k].name \notin ToolRegistry}

\* C16: if a tool call names a tool missing from the registry, or a tool's
\* execute returns an error, the node execution fails with an LLM error (tool
\* not found, or tool execution failed), no chat call is made for that node
\* after the response that held the call, and the request fails: it never
\* returns an output, and nothing is scheduled after the failure.
C16_ToolFailureFailsRequest ==
    \A j \in Runs :
        LET t == log[j].trace
        IN  (FailedExecutes(t) /= {} \/ MissingToolResponses(t) /= {}) =>
               /\ IsLlmError(log[j])
               /\ IF FailedExecutes(t) /= {}
                  THEN /\ log[j].val = <<"LlmError", "Tool execution failed: ", "e">>
                       /\ FailedExecutes(t) = {Len(t)}
                  ELSE /\ Len(log[j].val) = 3
                       /\ log[j].val[2] = "Tool not found: "
                       /\ log[j].val[3] \notin ToolRegistry
               /\ \A i \in MissingToolResponses(t) :
                     \A c \in StepsOf(t, "chat_with_tools") : c <= i
               /\ \A i \in FailedExecutes(t) :
                     \A c \in StepsOf(t, "chat_with_tools") : c < i
               /\ result.status /= "ok"
               /\ NothingScheduledAfter(j)

\* C16 witness: in its second iteration or later a node executed a tool and
\* then met a call of an unregistered tool, and the request has failed with
\* the error that names this tool.
C16_Witness ==
    \E j \in Runs :
        LET t == log[j].trace
        IN  /\ Len(t) > 0
            /\ t[Len(t)].op = "push"
            /\ Cardinality(StepsOf(t, "chat_with_tools")) >= 2
            /\ MissingToolResponses(t) /= {}
            /\ result = [status |-> "err",
                         output |-> <<"LlmError", "Tool not found: ", "ghost">>]

----------------------------------------------------------------------------
(* C17 *)

\* The position of the first chat_with_tools call after step i of a trace,
\* or the position after its end
NextChat(t, i) ==
    LET later == {c \in StepsOf(t, "chat_with_tools") : c > i}
    IN  IF later = {} THEN Len(t) + 1 ELSE Least(later)

\* C17: within one loop iteration the tools are executed one at a time in
\* the order of the provider's tool-call list: the steps between a response
\* with tool calls and the next chat call are, for the first, second, ...
\* call of the list, its tool.execute and then the push of one tool-result
\* message carrying that call's ID; and the message list of the next chat
\* call is the previous one with these messages appended in list order.
C17_ToolsExecutedInListOrder ==
    \A j \in Runs :
        LET t == log[j].trace
        IN  \A i \in ToolCallResponses(t) :
               LET calls == t[i].calls
                   next  == NextChat(t, i)
                   seg   == (i + 1)..(next - 1)
                   execs == {e \in seg : t[e].op = "execute"}
                   n     == Cardinality(execs)
               IN  /\ n <= Len(calls)
                   /\ \A e \in seg : t[e].op \in {"execute", "push"}
                   /\ \A k \in 1..n :
                         LET e == i + 2 * k - 1
                         IN  /\ e \in execs
                             /\ t[e].name = calls[k].name
                             /\ t[e].id = calls[k].id
                             /\ t[e].ok =>
                                   /\ e + 1 \in seg
                                   /\ t[e + 1].op = "push"
                                   /\ t[e + 1].id = calls[k].id
                             /\ ~t[e].ok => e = Len(t)
                   /\ Cardinality({e \in seg : t[e].op = "push"}) =
                         Cardinality({e \in execs : t[e].ok})
                   /\ next <= Len(t) =>
                         /\ n = Len(calls)
                         /\ t[next].messages =
                               t[i].messages \o
                               [k \in 1..n |->
                                   [role |-> "tool", tool_call_id |-> calls[k].id,
                                    content |-> t[i + 2 * k].content]]

\* C17 witness: a response asked for two different tools, both were executed
\* in list order, and the next chat call was sent their two results, in that
\* order, after the results of an earlier iteration.
C17_Witness ==
    \E j \in Runs :
        LET t == log[j].trace
        IN  \E i \in ToolCallResponses(t) :
               /\ Len(t[i].calls) = 2
               /\ t[i].calls[1].name /= t[i].calls[2].name
               /\ Len(t[i].messages) > 1
               /\ i + 5 <= Len(t)
               /\ t[i + 1].op = "execute" /\ t[i + 1].name = t[i].calls[1].name
               /\ t[i + 3].op = "execute" /\ t[i + 3].name = t[i].calls[2].name
               /\ t[i + 5].op = "chat_with_tools"
               /\ Len(t[i + 5].messages) = Len(t[i].messages) + 2
               /\ t[i + 5].messages[Len(t[i].messages) + 1].tool_call_id = t[i].calls[1].id
               /\ t[i + 5].messages[Len(t[i].messages) + 2].tool_call_id = t[i].calls[2].id

----------------------------------------------------------------------------
(* C18 *)

\* The node is run by execute_node_with_tools, and its tool list is not
\* empty but names no registered tool
OnlyUnknownTools(node) ==
    /\ requires_llm(node.node_type)
    /\ node.tools /= <<>>
    /\ \A k \in DOMAIN node.tools : node.tools[k] \notin ToolRegistry

\* C18: an LLM node whose tool list is non-empty but names no tool of the
\* registry makes exactly one plain chat call and no chat_with_tools call,
\* executes no tool, and returns the content of that call (or fails with its
\* error).
C18_UnknownToolsPlainChat ==
    \A j \in Runs :
        LET t == log[j].trace
        IN  OnlyUnknownTools(get_node(config, log[j].node)[1]) =>
               /\ Len(t) = 1
               /\ t[1].op = "chat"
               /\ log[j].ok = t[1].ok
               /\ log[j].ok => log[j].val = t[1].content

\* C18 witness: a node with two unknown tool names has made its one plain
\* chat call and written the answer, which is not its input.
C18_Witness ==
    \E j \in Runs, w \in Writes :
        LET node == get_node(config, log[j].node)[1]
        IN  /\ OnlyUnknownTools(node)
            /\ Len(node.tools) = 2
            /\ log[j].ok
            /\ log[j].trace[1].op = "chat"
            /\ \E i \in Reads : i < j /\ log[i].node = log[j].node
                                  /\ log[i].val /= log[j].val
            /\ j < w /\ log[w].node = log[j].node /\ log[w].val = log[j].val

----------------------------------------------------------------------------
(* C19 *)

\* The positions of the outgoing targets of a router that equal the trimmed
\* reply when both sides are lowercased
MatchingTargets(outgoing, reply) ==
    {k \in DOMAIN outgoing :
        to_lowercase(<<outgoing[k]>>) = to_lowercase(trim(reply))}

\* C19: the next node a router reports is the first of its outgoing targets
\* (output is never one of them) that equals the trimmed LLM reply under
\* case-insensitive comparison, and the first outgoing target if none does;
\* the list it reports has exactly one element whenever the router has an
\* outgoing target.
C19_RouterChoosesFirstMatch ==
    \A j \in Runs :
        (IsRouterNode(log[j].node) /\ log[j].ok) =>
           LET outgoing == get_outgoing_targets(config, log[j].node)
               matching == MatchingTargets(outgoing, log[j].val)
           IN  /\ \A k \in DOMAIN outgoing : outgoing[k] /= "output"
               /\ outgoing = <<>> => log[j].rt = <<>>
               /\ outgoing /= <<>> =>
                     /\ Len(log[j].rt) = 1
                     /\ log[j].rt[1] = IF matching /= {}
                                       THEN outgoing[Least(matching)]
                                       ELSE outgoing[1]

\* C19 witness: a router whose reply, with surrounding whitespace and in
\* another case, named its second outgoing target has reported that target.
C19_Witness ==
    \E j \in Runs :
        /\ IsRouterNode(log[j].node) /\ log[j].ok
        /\ LET outgoing == get_outgoing_targets(config, log[j].node)
           IN  /\ Len(outgoing) >= 2
               /\ outgoing[1] /= outgoing[2]
               /\ log[j].rt = <<outgoing[2]>>
               /\ log[j].val /= <<outgoing[2]>>
               /\ trim(log[j].val) /= log[j].val

----------------------------------------------------------------------------
(* C20 *)

\* The executions of router nodes whose LLM call failed
FailedRouterChats ==
    {j \in Runs : /\ IsRouterNode(log[j].node)
                  /\ log[j].trace /= <<>>
                  /\ log[j].trace[1].op = "chat"
                  /\ ~log[j].trace[1].ok}

\* No outgoing edge of the node of run j is considered after it, and no node
\* is read for or executed through one
NothingRoutedAfter(j) ==
    /\ \A c \in Considered : log[c].node = log[j].node => c < j
    /\ \A i \in Reads \cup Runs : (i > j /\ log[i].inbatch = 0) =>
          log[i].by /= log[j].node

\* C20 as stated: if the LLM call of a router fails, the request fails with
\* that error, and none of the router's outgoing targets, the first one
\* included, is executed.
C20_RouterFailureReturnsThatError ==
    \A j \in FailedRouterChats :
        /\ IsLlmError(log[j])
        /\ log[j].rt = <<>>
        /\ result.status /= "ok"
        /\ result.status = "err" => result.output = log[j].val
        /\ NothingRoutedAfter(j)
        /\ NothingScheduledAfter(j)

\* C20 amended: if the LLM call of a router fails, the router's execution
\* fails with that error and reports no next node, none of its outgoing
\* targets is executed, and the request fails: with that error, or, when the
\* router is a parallel sibling and a sibling before it in the target list
\* failed too, with that sibling's error.
C20_RouterFailureFailsRequest ==
    \A j \in FailedRouterChats :
        /\ IsLlmError(log[j])
        /\ log[j].rt = <<>>
        /\ result.status /= "ok"
        /\ result.status = "err" =>
              \E f \in FailedSiblings(j) :
                 /\ \A g \in FailedSiblings(j) : log[f].sibling <= log[g].sibling
                 /\ result.output = log[f].val
        /\ NothingRoutedAfter(j)
        /\ NothingScheduledAfter(j)

\* C20 witness: the request has failed with the error of a router's LLM
\* call, in a sequential step; the router has two outgoing targets and
\* neither has been executed.
C20_Witness ==
    \E j \in FailedRouterChats :
        LET outgoing == get_outgoing_targets(config, log[j].node)
        IN  /\ log[j].inbatch = 0
            /\ Len(outgoing) >= 2
            /\ HasNode(config, outgoing[1])
            /\ Range(outgoing) \cap executed = {}
            /\ result = [status |-> "err", output |-> log[j].val]

----------------------------------------------------------------------------
(* C21: two executions agree *)

\* The LLM stub is deterministic: in the two executions together, a node
\* executed again on the same input gave the same result.
DeterministicStub ==
    \A i, j \in Runs :
        (log[i].node = log[j].node /\ log[i].input = log[j].input) =>
            /\ log[i].ok = log[j].ok
            /\ log[i].val = log[j].val
            /\ log[i].rt = log[j].rt
            /\ log[i].trace = log[j].trace

\* Both executions are over
BothEnded == Ends /= {} /\ result.status /= "running"

\* C21: with a deterministic LLM stub, two executions of one pipeline on one
\* input end with the same context contents and the same result, whatever the
\* order in which parallel siblings finished in either.
C21_TwoExecutionsAgree ==
    (BothEnded /\ DeterministicStub) =>
        \A e \in Ends :
            /\ log[e].ctx = context
            /\ log[e].val = result.output
            /\ log[e].ok = (result.status = "ok")

\* Two siblings of a parallel edge finished in one order in the first
\* execution and in the other order in the second.
C21_Witness ==
    /\ BothEnded
    /\ DeterministicStub
    /\ \E e \in Ends : \E i1, i2, j1, j2 \in Runs :
          /\ i1 < i2 /\ i2 < e /\ e < j1 /\ j1 < j2
          /\ log[i1].inbatch > 0 /\ log[i2].inbatch = log[i1].inbatch
          /\ log[j1].inbatch > 0 /\ log[j2].inbatch = log[j1].inbatch
          /\ log[i1].node /= log[i2].node
          /\ log[j1].node = log[i2].node /\ log[j2].node = log[i1].node
          /\ ~log[i1].ok

----------------------------------------------------------------------------
(* C22: targets that name no node *)

\* The edges the traversal has processed that have a target naming no node:
\* their source is the user message or an executed node
EdgesToUnknown(parallel) ==
    {e \in DOMAIN config.edges :
        /\ (config.edges[e].edge_type = "parallel") = parallel
        /\ \E s \in Sources(e) : s = "input" \/ s \in executed
        /\ \E t \in Targets(e) : t \notin NodeIds(config) \cup {"output"}}

\* C22: an edge target that names no configured node is never executed (it
\* is not read for, run or written), never enters the executed set or the
\* context, and causes no error: an error returned is a node's failure.
C22_UnknownTargetSkipped ==
    /\ \A i \in Reads \cup Runs \cup Writes : log[i].node \in NodeIds(config)
    /\ executed \subseteq NodeIds(config)
    /\ DOMAIN context \subseteq NodeIds(config) \cup {"input"}
    /\ result.status = "err" => FailedRuns /= {}

\* A request returned its output after a sequential edge and a parallel edge
\* with unknown targets were processed
C22_Witness ==
    /\ Returned
    /\ EdgesToUnknown(TRUE) /= {}
    /\ EdgesToUnknown(FALSE) /= {}

----------------------------------------------------------------------------
(* Functions studied on their own: the engine's traversal stands still *)

EngineIdle ==
    /\ config = Pipeline(<<>>, <<>>)
    /\ user_input = <<>>
    /\ context = [k \in {"input"} |-> <<>>]
    /\ executed = {}
    /\ step = 0
    /\ batches = 0
    /\ log = <<>>
    /\ stack = <<>>
    /\ result = [status |-> "running", output |-> <<>>]

\* Option<T>: None is the empty sequence, Some(x) the sequence of x alone
None == <<>>

Some(x) == <<x>>

----------------------------------------------------------------------------
(* The model of a node: ModelResolver and PipelineEngine::get_node_model *)

\* ModelConfig { id, model, .. }
ModelConfig(id, model) == [id |-> id, model |-> model]

\* ModelResolver::new: the models collected into a map by ID, a later model
\* replacing an earlier one of the same ID
RECURSIVE CollectModels(_, _, _)
CollectModels(models, k, map) ==
    IF k > Len(models) THEN map
    ELSE CollectModels(models, k + 1, MapInsert(map, models[k].id, models[k]))

ModelResolver(models, default) ==
    [models |-> CollectModels(models, 1, EmptyMap), default_model |-> default]

\* ModelResolver::resolve
resolve(resolver, model_id) ==
    IF model_id /= None /\ model_id[1] \in DOMAIN resolver.models
    THEN resolver.models[model_id[1]]
    ELSE resolver.default_model

\* Mutant of get_node_model: the node's own model goes before the override.
get_node_model_own_first(resolver, node_overrides, node) ==
    LET model_id == IF node.model /= None THEN node.model
                    ELSE IF node.id \in DOMAIN node_overrides
                         THEN Some(node_overrides[node.id]) ELSE None
    IN  resolve(resolver, model_id)

\* PipelineEngine::get_node_model: node_overrides.get(id).or(node.model)
get_node_model(resolver, node_overrides, node) ==
    LET model_id == IF node.id \in DOMAIN node_overrides
                    THEN Some(node_overrides[node.id])
                    ELSE node.model
    IN  resolve(resolver, model_id)

\* The model IDs of the study; "gone" names no available model
ModelIds == {"m1", "m2", "gone"}

\* The lists of available models: two models, one ID given twice, none
ModelLists ==
    {<<ModelConfig("m1", "gpt"), ModelConfig("m2", "claude")>>,
     <<ModelConfig("m1", "gpt"), ModelConfig("m1", "llama")>>,
     <<>>}

DefaultModels == {ModelConfig("m1", "gpt"), ModelConfig("d", "local")}

\* The override maps: none, one for the node A, one for another node
OverrideMaps ==
    {EmptyMap} \cup {MapInsert(EmptyMap, n, m) : n \in {"A", "B"}, m \in ModelIds}

NodeModels == {None} \cup {Some(m) : m \in ModelIds}

ResolveInit ==
    /\ EngineIdle
    /\ study \in [fn : {"get_node_model"}, models : ModelLists,
                   default_model : DefaultModels, node_overrides : OverrideMaps,
                   node : [id : {"A"}, model : NodeModels]]
    /\ ret = <<>>
    /\ StreamIdle /\ ServerIdle

\* The engine is built from the models and asked for the model of the node
get_node_model_call ==
    /\ study.fn = "get_node_model"
    /\ ret = <<>>
    /\ ret' = <<get_node_model(ModelResolver(study.models, study.default_model),
                               study.node_overrides, study.node)>>
    /\ UNCHANGED <<engine_vars, study, stream_vars, server_vars>>

ResolveNext == get_node_model_call

ResolveSpec == ResolveInit /\ [][ResolveNext]_vars

\* The model ID the claim selects: the override of the node if there is one,
\* else the node's own model, else none
SelectedId ==
    IF study.node.id \in DOMAIN study.node_overrides
    THEN Some(study.node_overrides[study.node.id])
    ELSE study.node.model

AvailableIds == {study.models[i].id : i \in DOMAIN study.models}

\* C23: the effective model of a node is an available model with the
\* selected ID (override, else the node's model), and the default model when
\* nothing is selected or the selected ID is not among the available models.
C23_EffectiveModel ==
    (study.fn = "get_node_model" /\ ret /= <<>>) =>
        IF SelectedId /= None /\ SelectedId[1] \in AvailableIds
        THEN ret[1].id = SelectedId[1] /\ ret[1] \in Range(study.models)
        ELSE ret[1] = study.default_model

\* An override naming an available model won over the node's own model, and
\* the model found is not the default
C23_Witness ==
    /\ study.fn = "get_node_model"
    /\ ret /= <<>>
    /\ study.node.id \in DOMAIN study.node_overrides
    /\ study.node.model /= None
    /\ study.node.model /= SelectedId
    /\ SelectedId[1] \in AvailableIds
    /\ ret[1] /= study.default_model

----------------------------------------------------------------------------
(* JSON to PipelineConfig: PipelineConfig::from_json (serde) and the        *)
(* server's runtime_to_pipeline_config                                      *)

\* serde_json::Value, as far as endpoints need it
JsonString(s) == [kind |-> "string", s |-> s, items |-> <<>>]

JsonArray(items) == [kind |-> "array", s |-> "", items |-> items]

JsonNull == [kind |-> "null", s |-> "", items |-> <<>>]

\* The variant names of NodeType (serde rename_all = "snake_case", and FromStr)
NodeTypeNames ==
    {"llm", "gate", "router", "coordinator", "aggregator", "orchestrator",
     "worker", "synthesizer", "evaluator"}

\* The variant names of EdgeType under serde rename_all = "snake_case"
EdgeTypeNames == {"direct", "dynamic", "conditional", "parallel"}

\* Result<PipelineConfig, ConfigError>
Rejected == [ok |-> FALSE, config |-> Pipeline(<<>>, <<>>)]

Accepted(cfg) == [ok |-> TRUE, config |-> cfg]

\* <EdgeType as FromStr>::from_str: every other string is Direct
edge_type_from_str(s) ==
    IF s \in {"parallel", "dynamic", "conditional"} THEN s ELSE "direct"

\* <NodeType as FromStr>::from_str: Ok(variant) or Err(())
node_type_from_str(s) == IF s \in NodeTypeNames THEN Some(s) ELSE None

\* impl From<&serde_json::Value> for EdgeEndpoint
endpoint_from_value(val) ==
    IF val.kind = "string" THEN Single(val.s)
    ELSE IF val.kind = "array"
         THEN LET strs == SelectSeq(val.items, LAMBDA v : v.kind = "string")
              IN  Multiple([k \in DOMAIN strs |-> strs[k].s])
         ELSE Single("")

\* runtime_to_pipeline_config: n.node_type.parse().unwrap_or(NodeType::Llm)
runtime_node_type(s) ==
    IF node_type_from_str(s) /= None THEN node_type_from_str(s)[1] ELSE "llm"

\* runtime_to_pipeline_config: it has no failure
runtime_to_pipeline_config(runtime) ==
    Accepted(Pipeline(
        [k \in DOMAIN runtime.nodes |->
            NodeConfig(runtime.nodes[k].id, runtime_node_type(runtime.nodes[k].type))],
        [k \in DOMAIN runtime.edges |->
            EdgeConfig(endpoint_from_value(runtime.edges[k].from),
                       endpoint_from_value(runtime.edges[k].to),
                       IF runtime.edges[k].edge_type = None THEN "direct"
                       ELSE edge_type_from_str(runtime.edges[k].edge_type[1]))]))

\* The derived Deserialize of EdgeEndpoint (untagged): a string, or an array
\* of strings; no other value matches a variant
endpoint_deserializes(val) ==
    \/ val.kind = "string"
    \/ val.kind = "array" /\ \A k \in DOMAIN val.items : val.items[k].kind = "string"

\* The derived Deserialize of EdgeType: a variant name, or the default when
\* the field is absent; any other string is an "unknown variant" error
edge_type_deserializes(edge_type) ==
    edge_type = None \/ edge_type[1] \in EdgeTypeNames

\* PipelineConfig::from_json: serde_json::from_str with the derived impls
from_json(doc) ==
    IF /\ \A k \in DOMAIN doc.nodes : doc.nodes[k].type \in NodeTypeNames
       /\ \A k \in DOMAIN doc.edges :
              /\ endpoint_deserializes(doc.edges[k].from)
              /\ endpoint_deserializes(doc.edges[k].to)
              /\ edge_type_deserializes(doc.edges[k].edge_type)
    THEN Accepted(Pipeline(
            [k \in DOMAIN doc.nodes |-> NodeConfig(doc.nodes[k].id, doc.nodes[k].type)],
            [k \in DOMAIN doc.edges |->
                EdgeConfig(endpoint_from_value(doc.edges[k].from),
                           endpoint_from_value(doc.edges[k].to),
                           IF doc.edges[k].edge_type = None THEN "direct"
                           ELSE doc.edges[k].edge_type[1])]))
    ELSE Rejected

\* The documents of the study: one node, one edge from it to the sink
JsonNodeTypes == {"llm", "router", "bogus"}

JsonEdgeTypes ==
    {None, Some("direct"), Some("parallel"), Some("conditional"), Some("dynamic"),
     Some("bogus")}

JsonEndpoints ==
    {JsonString("A"), JsonArray(<<JsonString("A")>>), JsonNull}

JsonDocs ==
    [nodes : {<<[id |-> "A", type |-> t]>> : t \in JsonNodeTypes},
     edges : {<<[from |-> f, to |-> JsonString("output"), edge_type |-> ty]>> :
                 f \in JsonEndpoints, ty \in JsonEdgeTypes}]

ParseInit ==
    /\ EngineIdle
    /\ study \in [fn : {"from_json", "runtime_to_pipeline_config"}, doc : JsonDocs]
    /\ ret = <<>>
    /\ StreamIdle /\ ServerIdle

from_json_call ==
    /\ study.fn = "from_json"
    /\ ret = <<>>
    /\ ret' = <<from_json(study.doc)>>
    /\ UNCHANGED <<engine_vars, study, stream_vars, server_vars>>

runtime_to_pipeline_config_call ==
    /\ study.fn = "runtime_to_pipeline_config"
    /\ ret = <<>>
    /\ ret' = <<runtime_to_pipeline_config(study.doc)>>
    /\ UNCHANGED <<engine_vars, study, stream_vars, server_vars>>

ParseNext == from_json_call \/ runtime_to_pipeline_config_call

ParseSpec == ParseInit /\ [][ParseNext]_vars

Converted == study.fn \in {"from_json", "runtime_to_pipeline_config"} /\ ret /= <<>>

UnknownNodeType == \E k \in DOMAIN study.doc.nodes : study.doc.nodes[k].type \notin NodeTypeNames

UnknownEdgeType(k) ==
    /\ study.doc.edges[k].edge_type /= None
    /\ study.doc.edges[k].edge_type[1] \notin EdgeTypeNames

\* C24: on both paths from JSON to a PipelineConfig, a node with an unknown
\* type string rejects the whole config, and an edge with an unknown
\* edge_type string (in a config that has nothing else wrong) is accepted
\* with edge type direct.
C24_UnknownTypeRejectsUnknownEdgeTypeDirect ==
    Converted =>
        /\ UnknownNodeType => ~ret[1].ok
        /\ \A k \in DOMAIN study.doc.edges :
              (/\ UnknownEdgeType(k)
               /\ ~UnknownNodeType
               /\ study.doc.edges[k].from.kind = "string")
              => (ret[1].ok /\ ret[1].config.edges[k].edge_type = "direct")

----------------------------------------------------------------------------
(* Response bodies as byte streams.  A JSON object takes two bytes, so that *)
(* a network chunk can end inside it: the first carries what the object     *)
(* says, the last closes it.  A character outside ASCII in the object's     *)
(* text takes two more bytes in between, a lead byte and a continuation     *)
(* byte.  A line parses as JSON when it is exactly one object.              *)

NoObject == [type |-> "none"]

Newline == [b |-> "nl", obj |-> NoObject]

Lead == [b |-> "lead", obj |-> NoObject]

Cont == [b |-> "cont", obj |-> NoObject]

ObjectBytes(obj) == <<[b |-> "open", obj |-> obj], [b |-> "close", obj |-> NoObject]>>

\* The bytes of an object whose text has a two-byte character
WideObjectBytes(obj) ==
    <<[b |-> "open", obj |-> obj], Lead, Cont, [b |-> "close", obj |-> NoObject]>>

\* One line per object, each ended by a newline
RECURSIVE EncodeLines(_)
EncodeLines(objs) ==
    IF objs = <<>> THEN <<>>
    ELSE ObjectBytes(Head(objs)) \o <<Newline>> \o EncodeLines(Tail(objs))

\* serde_json::from_str(line): Some(object) or None
ParseJson(line) ==
    IF /\ Len(line) >= 2 /\ line[1].b = "open" /\ line[Len(line)].b = "close"
       /\ SubSeq(line, 2, Len(line) - 1) \in {<<>>, <<Lead, Cont>>}
    THEN Some(line[1].obj) ELSE None

\* String::from_utf8 succeeds: every lead byte has its continuation byte
\* behind it, and every continuation byte its lead byte before it
ValidUtf8(bytes) ==
    \A i \in DOMAIN bytes :
        /\ bytes[i].b = "lead" => (i < Len(bytes) /\ bytes[i + 1].b = "cont")
        /\ bytes[i].b = "cont" => (i > 1 /\ bytes[i - 1].b = "lead")

\* The position of the k-th newline of a text (0 for k = 0)
NewlinePos(text, k) ==
    IF k = 0 THEN 0
    ELSE CHOOSE i \in DOMAIN text :
            /\ text[i] = Newline
            /\ Cardinality({j \in 1..i : text[j] = Newline}) = k

NewlineCount(text) == Cardinality({i \in DOMAIN text : text[i] = Newline})

\* The lines of a text that are ended by a newline
CompleteLines(text) ==
    [k \in 1..NewlineCount(text) |->
        SubSeq(text, NewlinePos(text, k - 1) + 1, NewlinePos(text, k) - 1)]

\* What is left of a text behind its last newline
LastLine(text) ==
    SubSeq(text, NewlinePos(text, NewlineCount(text)) + 1, Len(text))

\* str::lines(): the text between newlines; a last line needs no newline
Lines(text) ==
    CompleteLines(text) \o (IF LastLine(text) = <<>> THEN <<>> ELSE <<LastLine(text)>>)

\* Every way of cutting a byte sequence into non-empty network chunks
RECURSIVE Cuts(_)
Cuts(text) ==
    IF text = <<>> THEN {<<>>}
    ELSE UNION {{<<SubSeq(text, 1, k)>> \o rest :
                    rest \in Cuts(SubSeq(text, k + 1, Len(text)))} :
                k \in 1..Len(text)}

\* An item of reqwest's bytes_stream: Ok(bytes) or Err
NetOk(bytes) == [ok |-> TRUE, bytes |-> bytes]

NetErr == [ok |-> FALSE, bytes |-> <<>>]

\* StreamChunk::Content, StreamChunk::Usage, and Err(AgentError) as items of
\* an LlmStream
StreamContent(text) ==
    [kind |-> "content", content |-> text, input_tokens |-> 0, output_tokens |-> 0]

StreamUsage(i, o) ==
    [kind |-> "usage", content |-> <<>>, input_tokens |-> i, output_tokens |-> o]

StreamErr ==
    [kind |-> "error", content |-> <<>>, input_tokens |-> 0, output_tokens |-> 0]

----------------------------------------------------------------------------
(* OllamaClient::chat_stream_with_metrics: the NDJSON stream *)

\* OllamaChatResponse { message, done, metrics }
OllamaContent(text) ==
    [type |-> "ollama", done |-> FALSE, message |-> Some(text), metrics |-> DefaultMetrics]

OllamaDone(metrics) ==
    [type |-> "ollama", done |-> TRUE, message |-> Some(<<>>), metrics |-> metrics]

\* The closure of filter_map over the lines of one network chunk, from line
\* k on: the first done object sets the collector and gives Usage, the first
\* object with a non-empty content gives Content, and the closure returns
\* there; with neither it gives nothing.  [item, collector]
RECURSIVE ollama_lines(_, _, _)
ollama_lines(lines, k, coll) ==
    IF k > Len(lines) THEN [item |-> None, collector |-> coll]
    ELSE LET resp == ParseJson(lines[k])
         IN  IF lines[k] = <<>> \/ resp = None
             THEN ollama_lines(lines, k + 1, coll)
             ELSE IF resp[1].done
                  THEN [item |-> Some(StreamUsage(resp[1].metrics.prompt_eval_count,
                                                  resp[1].metrics.eval_count)),
                        collector |-> resp[1].metrics]
                  ELSE IF resp[1].message /= None /\ resp[1].message[1] /= <<>>
                       THEN [item |-> Some(StreamContent(resp[1].message[1])),
                             collector |-> coll]
                       ELSE ollama_lines(lines, k + 1, coll)

\* The closure on one item of the byte stream
ollama_chunk(item, coll) ==
    IF ~item.ok THEN [item |-> Some(StreamErr), collector |-> coll]
    ELSE ollama_lines(Lines(item.bytes), 1, coll)

\* The metrics of the done object of the study
DoneMetrics ==
    [prompt_eval_count |-> 7, eval_count |-> 5, total_duration |-> 9000000,
     load_duration |-> 1000000, prompt_eval_duration |-> 2000000,
     eval_duration |-> 3000000]

\* The bodies of the study: content objects, then the done object
OllamaBodies ==
    {<<OllamaContent(<<"a">>), OllamaContent(<<"b">>), OllamaDone(DoneMetrics)>>}

OllamaInit ==
    /\ EngineIdle /\ NoCall /\ ServerIdle
    /\ \E body \in OllamaBodies : \E cut \in Cuts(EncodeLines(body)) :
          net = [k \in DOMAIN cut |-> NetOk(cut[k])]
    /\ buffer = <<>>
    /\ chunks = <<>>
    /\ collector = DefaultMetrics

\* The stream is polled: the next network chunk goes through the closure
ollama_poll ==
    /\ net /= <<>>
    /\ LET r == ollama_chunk(Head(net), collector)
       IN  /\ chunks' = chunks \o r.item
           /\ collector' = r.collector
    /\ net' = Tail(net)
    /\ UNCHANGED <<engine_vars, study_vars, server_vars, buffer>>

OllamaNext == ollama_poll

OllamaSpec == OllamaInit /\ [][OllamaNext]_vars

\* C28: however the NDJSON byte stream is cut into network chunks, once it
\* is read through the stream has given one Content chunk per content
\* object, in order, then exactly one Usage chunk for the done object, and
\* the metrics collector holds the done object's metrics.
C28_EveryObjectYieldsItsChunk ==
    net = <<>> =>
        /\ chunks = <<StreamContent(<<"a">>), StreamContent(<<"b">>),
                      StreamUsage(DoneMetrics.prompt_eval_count, DoneMetrics.eval_count)>>
        /\ collector = DoneMetrics

----------------------------------------------------------------------------
(* AnthropicClient::chat_stream: the SSE stream *)

\* Most cut points of a body of the study
MaxCutPoints == 2

\* The ways of cutting a byte sequence into non-empty network chunks at no
\* more than n places
RECURSIVE CutsUpTo(_, _)
CutsUpTo(text, n) ==
    IF text = <<>> THEN {<<>>}
    ELSE {<<text>>} \cup
         (IF n = 0 THEN {}
          ELSE UNION {{<<SubSeq(text, 1, k)>> \o rest :
                          rest \in CutsUpTo(SubSeq(text, k + 1, Len(text)), n - 1)} :
                      k \in 1..(Len(text) - 1)})

\* The line start "data: "
DataPrefix == [b |-> "data", obj |-> NoObject]

\* StreamEvent { type, delta.text, usage, message.usage }: the token counts
\* are Options
SseEvent(type, text, usage, message_usage) ==
    [type |-> type, text |-> text, usage |-> usage, message_usage |-> message_usage]

SseUsage(i, o) == [input_tokens |-> i, output_tokens |-> o]

unwrap_or_0(opt) == IF opt = None THEN 0 ELSE opt[1]

\* The chunks one event gives
sse_event_chunks(event) ==
    IF event.type = "content_block_delta"
    THEN (IF event.text /= None THEN <<StreamContent(event.text[1])>> ELSE <<>>)
    ELSE IF event.type = "message_delta"
    THEN (IF event.usage /= None
          THEN <<StreamUsage(unwrap_or_0(event.usage[1].input_tokens),
                             unwrap_or_0(event.usage[1].output_tokens))>>
          ELSE <<>>)
    ELSE IF event.type = "message_start"
    THEN (IF event.message_usage /= None
          THEN <<StreamUsage(unwrap_or_0(event.message_usage[1].input_tokens), 0)>>
          ELSE <<>>)
    ELSE <<>>

\* The chunks of one complete line: only a "data: " line with a JSON event
sse_line_chunks(line) ==
    IF line = <<>> \/ line[1] /= DataPrefix THEN <<>>
    ELSE LET event == ParseJson(Tail(line))
         IN  IF event = None THEN <<>> ELSE sse_event_chunks(event[1])

\* The while loop: the complete lines leave the buffer, the rest stays.
\* [buffer, items]
sse_drain(buf, parsed_chunks) ==
    LET lines == CompleteLines(buf)
    IN  [buffer |-> LastLine(buf),
         items |-> parsed_chunks
                   \o Flatten([k \in DOMAIN lines |-> sse_line_chunks(lines[k])])]

\* The closure of scan on one item of the byte stream: an error item, or
\* nothing for bytes that are not UTF-8, or the chunks of the lines completed
sse_chunk(item, buf) ==
    IF ~item.ok THEN [buffer |-> buf, items |-> <<StreamErr>>]
    ELSE IF ~ValidUtf8(item.bytes) THEN [buffer |-> buf, items |-> <<>>]
    ELSE sse_drain(buf \o item.bytes, <<>>)

\* "data: " and the JSON event, then an empty line
SseBytes(event_bytes) == <<DataPrefix>> \o event_bytes \o <<Newline, Newline>>

\* The bodies of the study: message_start with the input tokens, a text
\* delta with a two-byte character, message_delta with the output tokens
SseBodies ==
    {SseBytes(ObjectBytes(SseEvent("message_start", None, None,
                                   Some(SseUsage(Some(7), None)))))
     \o SseBytes(WideObjectBytes(SseEvent("content_block_delta", Some(<<"a">>),
                                          None, None)))
     \o SseBytes(ObjectBytes(SseEvent("message_delta", None,
                                      Some(SseUsage(None, Some(5))), None)))}

SseInit ==
    /\ EngineIdle /\ ServerIdle
    /\ \E body \in SseBodies : \E cut \in CutsUpTo(body, MaxCutPoints) :
          /\ study = [fn |-> "chat_stream", body |-> body]
          /\ net = [k \in DOMAIN cut |-> NetOk(cut[k])]
    /\ ret = <<>>
    /\ buffer = <<>>
    /\ chunks = <<>>
    /\ collector = DefaultMetrics

\* The stream is polled: the next network chunk goes through the closure
sse_poll ==
    /\ net /= <<>>
    /\ LET r == sse_chunk(Head(net), buffer)
       IN  /\ chunks' = chunks \o r.items
           /\ buffer' = r.buffer
    /\ net' = Tail(net)
    /\ UNCHANGED <<engine_vars, study_vars, server_vars, collector>>

SseNext == sse_poll

SseSpec == SseInit /\ [][SseNext]_vars

\* C30: the Content and Usage chunks the parser has given when the body is
\* read through are those it gives for the same bytes in one network chunk,
\* wherever the byte stream was cut.
C30_ChunkingIrrelevant ==
    (study.fn = "chat_stream" /\ net = <<>>) =>
        chunks = sse_chunk(NetOk(study.body), <<>>).items

----------------------------------------------------------------------------
(* The chat endpoint of the server: the task spawned for one request.       *)
(* handler "fissio" is src/fissio/crates/fissio-server/src/handlers/chat.rs *)
(* and handler "crates" is src/crates/fissio-server/src/handlers/chat.rs,   *)
(* which takes the local-native stream from services::execute_ollama_stream *)

\* The fixed diagnostic chunk
ErrorChunk == <<"Error generating response.">>

\* An SSE event of the response: SseData::Stream { content } under event
\* "stream", SseData::End { metadata } under event "end"
NoMetadata == [input_tokens |-> 0, output_tokens |-> 0, load_duration_ms |-> None,
               prompt_eval_ms |-> None, eval_ms |-> None]

StreamEvent(content) == [event |-> "stream", content |-> content, metadata |-> NoMetadata]

EndEvent(metadata) == [event |-> "end", content |-> <<>>, metadata |-> metadata]

\* build_metadata: the counts and durations of the Ollama metrics when the
\* result has them, else the result's token counts
build_metadata(t) ==
    IF t.ollama_metrics /= None
    THEN LET m == t.ollama_metrics[1]
         IN  [input_tokens |-> m.prompt_eval_count,
              output_tokens |-> m.eval_count,
              load_duration_ms |-> Some(m.load_duration \div 1000000),
              prompt_eval_ms |-> Some(m.prompt_eval_duration \div 1000000),
              eval_ms |-> Some(m.eval_duration \div 1000000)]
    ELSE [NoMetadata EXCEPT !.input_tokens = t.input_tokens,
                            !.output_tokens = t.output_tokens]

\* The bodies a local-native request may get: one line per network chunk,
\* the whole body in one chunk, and a body that breaks after its first line
OllamaNets ==
    LET body == <<OllamaContent(<<"a">>), OllamaContent(<<"b">>), OllamaDone(DoneMetrics)>>
        line(k) == NetOk(EncodeLines(<<body[k]>>))
    IN  {<<line(1), line(2), line(3)>>,
         <<NetOk(EncodeLines(body))>>,
         <<line(1), NetErr, line(2), line(3)>>}

\* The bodies a direct request may get: the whole body in one chunk, a cut
\* inside its second line, and a body that breaks after its first event
SseNets ==
    LET body == CHOOSE b \in SseBodies : TRUE
    IN  {<<NetOk(body)>>,
         <<NetOk(SubSeq(body, 1, 7)), NetOk(SubSeq(body, 8, Len(body)))>>,
         <<NetOk(SubSeq(body, 1, 5)), NetErr, NetOk(SubSeq(body, 6, Len(body)))>>}

\* The requests: a pipeline request, or a local-native or direct request
\* whose provider call is refused or gives a body
ChatRequests ==
    {[handler |-> "fissio", path |-> "engine", refused |-> FALSE, body |-> <<>>]}
    \cup [handler : {"fissio", "crates"}, path : {"ollama", "direct"},
          refused : {TRUE}, body : {<<>>}]
    \cup [handler : {"fissio", "crates"}, path : {"ollama"}, refused : {FALSE},
          body : OllamaNets]
    \cup [handler : {"fissio", "crates"}, path : {"direct"}, refused : {FALSE},
          body : SseNets]

\* The pipelines of the pipeline requests
ChatPipelines == TwicePipelines \cup {Linear, Passthrough, NoOutput, UnknownLoop}

\* The locals of the task: where it is, the token counts of consume_stream,
\* the metrics of the StreamResult, and whether the done object of a
\* local-native stream was consumed
Task(pc) ==
    [pc |-> pc, input_tokens |-> 0, output_tokens |-> 0, ollama_metrics |-> None,
     done_consumed |-> FALSE]

ChatInit ==
    /\ NoCall
    /\ req \in ChatRequests
    /\ IF req.path = "engine"
       THEN config \in ChatPipelines /\ user_input \in Messages
       ELSE config = Passthrough /\ user_input = <<"hi">>
    /\ context = [k \in {"input"} |-> user_input]
    /\ executed = {}
    /\ step = 0
    /\ batches = 0
    /\ log = <<>>
    /\ stack = <<>>
    /\ result = [status |-> "running", output |-> <<>>]
    /\ StreamIdle
    /\ task = Task("start")
    /\ events = <<>>

\* stream_chat, pipeline request: stream_engine builds the engine and calls
\* execute_stream
stream_engine_call ==
    /\ task.pc = "start"
    /\ req.path = "engine"
    /\ task' = [task EXCEPT !.pc = "engine"]
    /\ stack' = <<[Frame EXCEPT !.fn = "stream", !.i = 1]>>
    /\ UNCHANGED <<config, user_input, context, executed, step, batches, log, result>>
    /\ UNCHANGED <<study_vars, stream_vars, req, events>>

\* stream_engine, execute_stream has returned: the response or the
\* diagnostic is sent as one chunk, the token counts are 0
stream_engine_return ==
    /\ task.pc = "engine"
    /\ result.status /= "running"
    /\ events' = Append(events, StreamEvent(IF result.status = "ok"
                                            THEN result.output ELSE ErrorChunk))
    /\ task' = [task EXCEPT !.pc = "finalize"]
    /\ UNCHANGED <<engine_vars, study_vars, stream_vars, req>>

\* stream_ollama / stream_direct_chat, Err arm: the provider call is refused
stream_refused ==
    /\ task.pc = "start"
    /\ req.path \in {"ollama", "direct"}
    /\ req.refused
    /\ events' = Append(events, StreamEvent(ErrorChunk))
    /\ task' = [task EXCEPT !.pc = "finalize"]
    /\ UNCHANGED <<engine_vars, study_vars, stream_vars, req>>

\* stream_ollama / stream_direct_chat, Ok arm: the stream is there.
\* execute_ollama_stream (handler "crates") reads the collector now.
stream_opened ==
    /\ task.pc = "start"
    /\ req.path \in {"ollama", "direct"}
    /\ ~req.refused
    /\ net' = req.body
    /\ task' = [task EXCEPT !.pc = "consume",
                            !.ollama_metrics =
                                IF req.path = "ollama" /\ req.handler = "crates"
                                THEN Some(collector) ELSE None]
    /\ UNCHANGED <<engine_vars, study_vars, buffer, chunks, collector, req, events>>

\* stream.next() with nothing parsed ahead: the next network chunk goes
\* through the closure of the stream
stream_next ==
    /\ task.pc = "consume"
    /\ chunks = <<>>
    /\ net /= <<>>
    /\ LET o == ollama_chunk(Head(net), collector)
           a == sse_chunk(Head(net), buffer)
       IN  /\ chunks' = IF req.path = "ollama" THEN o.item ELSE a.items
           /\ collector' = IF req.path = "ollama" THEN o.collector ELSE collector
           /\ buffer' = IF req.path = "ollama" THEN buffer ELSE a.buffer
    /\ net' = Tail(net)
    /\ UNCHANGED <<engine_vars, study_vars, server_vars>>

\* The StreamResult once the loop is left: stream_ollama (handler "fissio")
\* reads the collector now
StreamResult(t) ==
    [t EXCEPT !.pc = "finalize",
              !.ollama_metrics = IF req.path = "ollama" /\ req.handler = "fissio"
                                 THEN Some(collector) ELSE @]

\* consume_stream / stream_to_sse_with_response, one item: a content chunk
\* is sent, a usage chunk sets the counts, an error item ends the loop
\* (handler "fissio") or is passed over (handler "crates")
consume_chunk ==
    /\ task.pc = "consume"
    /\ chunks /= <<>>
    /\ LET item == Head(chunks)
       IN  /\ events' = IF item.kind = "content"
                        THEN Append(events, StreamEvent(item.content)) ELSE events
           /\ task' = IF item.kind = "usage"
                      THEN [task EXCEPT !.input_tokens = item.input_tokens,
                                        !.output_tokens = item.output_tokens,
                                        !.done_consumed = (req.path = "ollama")]
                      ELSE IF item.kind = "error" /\ req.handler = "fissio"
                           THEN StreamResult(task)
                           ELSE task
    /\ chunks' = Tail(chunks)
    /\ UNCHANGED <<engine_vars, study_vars, net, buffer, collector, req>>

\* The stream has ended: the loop is left
consume_stream_return ==
    /\ task.pc = "consume"
    /\ chunks = <<>>
    /\ net = <<>>
    /\ task' = StreamResult(task)
    /\ UNCHANGED <<engine_vars, study_vars, stream_vars, req, events>>

\* chat: the metadata is built from the result and sent as the end event
chat_end ==
    /\ task.pc = "finalize"
    /\ events' = Append(events, EndEvent(build_metadata(task)))
    /\ task' = [task EXCEPT !.pc = "done"]
    /\ UNCHANGED <<engine_vars, study_vars, stream_vars, req>>

ChatNext ==
    \/ stream_engine_call
    \/ Next
    \/ stream_engine_return
    \/ stream_refused
    \/ stream_opened
    \/ stream_next
    \/ consume_chunk
    \/ consume_stream_return
    \/ chat_end

ChatSpec == ChatInit /\ [][ChatNext]_vars

\* The spawned task is polled by the runtime until it ends
FairChatSpec == ChatSpec /\ WF_vars(ChatNext)

----------------------------------------------------------------------------
(* C25, C26, C27, C29: the event stream and the terminal metadata *)

EndEvents == {i \in DOMAIN events : events[i].event = "end"}

StreamEvents == {i \in DOMAIN events : events[i].event = "stream"}

\* The task has ended
TaskDone == task.pc = "done"

\* The metadata of the end event (the last event, once the task has ended)
TerminalMetadata == events[Len(events)].metadata

\* At most one end event, and nothing behind it
OneEndLast ==
    /\ Cardinality(EndEvents) <= 1
    /\ \A e \in EndEvents : e = Len(events)

\* C25: for every chat request the event stream carries exactly one end
\* event, and it comes after every content chunk: there is never more than
\* one, nothing is ever sent behind it, and it is eventually sent.
C25_ExactlyOneEndAfterChunks == []OneEndLast /\ <>(EndEvents /= {})

\* An error item arrived on the stream of the request
MidStreamError ==
    /\ req.path \in {"ollama", "direct"}
    /\ ~req.refused
    /\ \E k \in DOMAIN req.body : req.body[k] = NetErr

\* The request failed: the provider call was refused, the engine returned
\* an error, or an error item arrived mid-stream
RequestFailed ==
    \/ req.path \in {"ollama", "direct"} /\ req.refused
    \/ req.path = "engine" /\ result.status = "err"
    \/ MidStreamError

\* C26: when a request has failed, its event stream carries the fixed
\* diagnostic chunk and the terminal metadata has input_tokens = 0 and
\* output_tokens = 0.
C26_FailureDiagnosticAndZeroTokens ==
    (TaskDone /\ RequestFailed) =>
        /\ \E i \in StreamEvents : events[i].content = ErrorChunk
        /\ TerminalMetadata.input_tokens = 0
        /\ TerminalMetadata.output_tokens = 0

\* The usage the provider reports with an answered call (LlmMetrics): the
\* prompt counts for one input token, every part of the reply for one
\* output token
ReportedUsage(call_step) ==
    [input_tokens |-> 1, output_tokens |-> Len(call_step.content) + Len(call_step.calls)]

\* The answered LLM calls of a node execution
AnsweredCalls(t) ==
    SelectSeq(t, LAMBDA st : st.op \in {"chat", "chat_with_tools"} /\ st.ok)

\* The answered LLM calls of the request so far
RECURSIVE CallsOfRequest(_)
CallsOfRequest(k) ==
    IF k = 0 THEN <<>>
    ELSE CallsOfRequest(k - 1) \o
         (IF log[k].ev = "run" THEN AnsweredCalls(log[k].trace) ELSE <<>>)

RECURSIVE SumTokens(_, _)
SumTokens(calls, field) ==
    IF calls = <<>> THEN 0
    ELSE ReportedUsage(Head(calls))[field] + SumTokens(Tail(calls), field)

\* C27: when a pipeline request has succeeded, the token counts of the
\* terminal metadata are the sums of the usage reported by the LLM calls of
\* its nodes (so they are 0 only if no call reported any).
C27_PipelineTokensAreReportedUsage ==
    (TaskDone /\ req.path = "engine" /\ result.status = "ok") =>
        /\ TerminalMetadata.input_tokens =
               SumTokens(CallsOfRequest(Len(log)), "input_tokens")
        /\ TerminalMetadata.output_tokens =
               SumTokens(CallsOfRequest(Len(log)), "output_tokens")

\* C29: on the local-native path, when the done object of the stream was
\* consumed, the terminal metadata carries its prompt_eval_count, its
\* eval_count and its durations: the collector was read after it was set.
C29_MetadataCarriesDoneMetrics ==
    (TaskDone /\ req.path = "ollama" /\ task.done_consumed) =>
        TerminalMetadata =
            build_metadata([Task("done") EXCEPT !.ollama_metrics = Some(DoneMetrics)])

-----------------------------------------------------------------------------
(* The execution shape of a chat request: stream_chat and execute_chat *)

\* ModelConfig { id, api_base, .. } of the server's model list
ServerModel(id, api_base) == [id |-> id, api_base |-> api_base]

\* ServerState::get_model: the first model of that ID, else the first model
get_model(models, model_id) ==
    LET found == SelectSeq(models, LAMBDA m : m.id = model_id)
    IN  IF found /= <<>> THEN found[1] ELSE models[1]

\* req.pipeline_id.and_then(|id| presets.get(id)).is_some()
preset_found(r, presets) == r.pipeline_id /= None /\ r.pipeline_id[1] \in presets

\* What follows the first test of either handler: runtime configuration,
\* preset, direct chat
shape_after_ollama(r, presets) ==
    IF r.pipeline_config /= None THEN "runtime"
    ELSE IF preset_found(r, presets) THEN "preset"
    ELSE "direct"

\* stream_chat: the execution shape it returns through
stream_chat(r, model, presets) ==
    IF r.verbose /\ model.api_base /= None THEN "ollama"
    ELSE shape_after_ollama(r, presets)

\* execute_chat: its request has no verbose field, serde drops the one sent
execute_chat(r, model, presets) ==
    IF model.api_base /= None THEN "ollama"
    ELSE shape_after_ollama(r, presets)

\* The server's models, a local one (with api_base) and a hosted one, in
\* both orders; "nope" names neither
ServerModels ==
    {<<ServerModel("local", Some("http://host")), ServerModel("cloud", None)>>,
     <<ServerModel("cloud", None), ServerModel("local", Some("http://host"))>>}

Presets == {"p"}

ShapeRequests ==
    [verbose : BOOLEAN,
     model_id : {None, Some("local"), Some("cloud"), Some("nope")},
     pipeline_config : {None, Some("cfg")},
     pipeline_id : {None, Some("p"), Some("q")}]

ShapeInit ==
    /\ EngineIdle
    /\ study \in [fn : {"stream_chat"}, handler : {"fissio", "crates"},
                   models : ServerModels, request : ShapeRequests]
    /\ ret = <<>>
    /\ StreamIdle /\ ServerIdle

\* model_id.as_deref().unwrap_or("") and get_model
ResolvedModel ==
    get_model(study.models,
              IF study.request.model_id = None THEN "" ELSE study.request.model_id[1])

\* The handler resolves the model and chooses the shape
stream_chat_call ==
    /\ study.fn = "stream_chat"
    /\ ret = <<>>
    /\ ret' = <<IF study.handler = "fissio"
                THEN stream_chat(study.request, ResolvedModel, Presets)
                ELSE execute_chat(study.request, ResolvedModel, Presets)>>
    /\ UNCHANGED <<engine_vars, study, stream_vars, server_vars>>

ShapeNext == stream_chat_call

ShapeSpec == ShapeInit /\ [][ShapeNext]_vars

\* C31: the shape is chosen by priority: the local-native path if and only
\* if verbose is true and the resolved model has an api_base; otherwise the
\* runtime configuration if present; otherwise the preset named by
\* pipeline_id if it exists; otherwise direct chat.
C31_ShapeByPriority ==
    (study.fn = "stream_chat" /\ ret /= <<>>) =>
        LET r == study.request
        IN  /\ (ret[1] = "ollama") <=> (r.verbose /\ ResolvedModel.api_base /= None)
            /\ (ret[1] = "runtime") =>  r.pipeline_config /= None
            /\ (ret[1] = "preset") => (r.pipeline_config = None /\ r.pipeline_id = Some("p"))
            /\ (ret[1] = "direct") =>
                   (r.pipeline_config = None /\ r.pipeline_id /= Some("p"))

-----------------------------------------------------------------------------
(* C32 *)

\* C32: a node executes only tools named in its own tools list: every
\* tool.execute of a node execution names a tool of the node's list.
C32_OnlyOwnToolsExecuted ==
    \A j \in Runs :
        LET t == log[j].trace
            node == get_node(config, log[j].node)[1]
        IN  \A e \in StepsOf(t, "execute") : t[e].name \in Range(node.tools)

-----------------------------------------------------------------------------
(* C33 *)

\* sub is a contiguous part of s
IsInfix(sub, s) ==
    \E i \in 0..(Len(s) - Len(sub)) : SubSeq(s, i + 1, i + Len(sub)) = sub

\* Edge f fans out to several nodes without being parallel or conditional,
\* and edge g joins exactly these nodes into the single node d
FanOutJoin(f, g, d) ==
    /\ config.edges[f].edge_type \notin {"parallel", "conditional"}
    /\ Len(as_vec(config.edges[f].to)) >= 2
    /\ \A b \in Targets(f) : HasNode(config, b)
    /\ as_vec(config.edges[g].from) = as_vec(config.edges[f].to)
    /\ as_vec(config.edges[g].to) = <<d>>
    /\ HasNode(config, d)
    /\ d \notin Targets(f)

\* C33: when a fan-out is declared with a non-parallel edge X -> [B, C] and
\* joined by an edge [B, C] -> D, D executes only after both B and C have
\* executed, and D's input contains both of their outputs.
C33_JoinAfterAllBranches ==
    \A f, g \in DOMAIN config.edges : \A r \in Runs :
        FanOutJoin(f, g, log[r].node) =>
            \A b \in Targets(f) :
                \E k \in Runs :
                    /\ k < r
                    /\ log[k].node = b
                    /\ log[k].ok
                    /\ IsInfix(log[k].val, log[r].input)

-----------------------------------------------------------------------------
(* C34 *)

\* Every outgoing target of router R is a node with an edge of its own to
\* output, and the pipeline has no other output edge
OwnOutputEdges(R) ==
    LET outgoing == Range(get_outgoing_targets(config, R))
    IN  /\ \A b \in outgoing :
              /\ HasNode(config, b)
              /\ \E e \in OutputEdges : as_vec(config.edges[e].from) = <<b>>
        /\ \A e \in OutputEdges :
              \E b \in outgoing : as_vec(config.edges[e].from) = <<b>>

\* C34: when a router has selected target t and each router target has its
\* own edge to output, the request returns t's output, whichever of those
\* output edges is declared first.
C34_SelectedTargetIsOutput ==
    Returned =>
        \A j \in Runs :
            ( /\ IsRouterNode(log[j].node)
              /\ log[j].ok
              /\ Len(log[j].rt) = 1
              /\ OwnOutputEdges(log[j].node)
              /\ log[j].rt[1] \in DOMAIN context )
            => result.output = context[log[j].rt[1]]

-----------------------------------------------------------------------------
(* C35 *)

\* The times the outgoing edge e of node n was considered by
\* process_outgoing_edges
ConsideredFrom(n, e) == {c \in Considered : log[c].node = n /\ log[c].edge = e}

\* The successful executions of node n
RunsOf(n) == {j \in Runs : log[j].node = n /\ log[j].ok}

\* C35: a target that is skipped by an edge, because it is already executed
\* or names no node, does not have its outgoing edges processed through that
\* edge, for parallel edges as for sequential ones: the outgoing edges of a
\* node are processed once for each of its executions, and no more often.
C35_OutgoingEdgesOncePerExecution ==
    \A c \in Considered :
        Cardinality(ConsideredFrom(log[c].node, log[c].edge))
            <= Cardinality(RunsOf(log[c].node))

-----------------------------------------------------------------------------
(* C36 *)

\* The siblings gathered by the execute_parallel call b
GatheredIn(b) == {i \in Reads : log[i].inbatch = b}

\* The node executions of the execute_parallel call b that have returned
FinishedIn(b) == {j \in Runs : log[j].inbatch = b}

\* C36: when a sibling of a parallel fan-out fails, the others are not
\* cancelled: once the request has returned the error, every sibling
\* gathered by that execute_parallel call has run to its end.
C36_SiblingsNotCancelled ==
    result.status = "err" =>
        \A f \in FailedRuns :
            log[f].inbatch > 0 =>
                Cardinality(FinishedIn(log[f].inbatch))
                    = Cardinality(GatheredIn(log[f].inbatch))

\* C36 witness: the request returned the error of a sibling after another
\* sibling, which finished later, had made its LLM calls and executed a tool.
C36_Witness ==
    /\ result.status = "err"
    /\ \E f \in FailedRuns, g \in Runs :
          /\ log[f].inbatch > 0
          /\ log[g].inbatch = log[f].inbatch
          /\ g > f
          /\ log[g].ok
          /\ StepsOf(log[g].trace, "execute") /= {}
          /\ result.output = log[f].val

-----------------------------------------------------------------------------
(* C37 *)

\* The direct request's stream arrived whole: no error item, and no network
\* chunk cut inside a character
WholeSseStream ==
    /\ req.path = "direct"
    /\ ~req.refused
    /\ \A k \in DOMAIN req.body : req.body[k].ok /\ ValidUtf8(req.body[k].bytes)

\* C37: after an Anthropic stream whose message_start reports input_tokens
\* = 7 and whose later message_delta usage reports only output_tokens = 5 has
\* been consumed, the token counts reported for the request are input_tokens
\* = 7 and output_tokens = 5.
C37_InputTokensKept ==
    (TaskDone /\ WholeSseStream) =>
        /\ TerminalMetadata.input_tokens = 7
        /\ TerminalMetadata.output_tokens = 5

-----------------------------------------------------------------------------
(* C38 *)

\* No node of the configuration is named input
NoInputNode == "input" \notin NodeIds(config)

\* C38: given that no node is named input, at every point between node
\* executions the executed set is the set of the context's keys other than
\* input.
C38_ExecutedAreContextKeys ==
    NoInputNode => executed = DOMAIN context \ {"input"}

\* C38 witness: a parallel call has stored the output of its first sibling
\* and stopped at the failure of a later one, after a node before them had
\* been executed in a sequential step.
C38_Witness ==
    /\ NoInputNode
    /\ result.status = "err"
    /\ Cardinality(executed) >= 2
    /\ \E f \in FailedRuns, w \in Writes, v \in Writes :
          /\ log[f].inbatch > 0
          /\ w > f
          /\ log[w].node /= log[f].node
          /\ log[w].node \in executed
          /\ v < f
          /\ log[v].node /= log[w].node

============================================================================
